---- MODULE Spec2Model ----
(***************************************************************************)
(* State-machine model of the CitadelX contracts                           *)
(* (projects/CitadelX-contracts/smart_contracts: citadel_dao and           *)
(* moderator_purchase).                                                    *)
(*                                                                         *)
(* Every ABI method is one action.  A call whose assert fails is rejected  *)
(* by the AVM as a whole: the contract state is left as it was and only    *)
(* the bookkeeping variable `last` (which call was made, by whom, did it   *)
(* succeed) records it.  Arithmetic is done in the integers; the range     *)
(* invariants show that no uint64 operation of the code under- or          *)
(* overflows in the states explored.                                       *)
(*                                                                         *)
(* The contracts are independent applications; each has its own            *)
(* specification (SpecGov, SpecDao, ...) over the shared variables.        *)
(* A GlobalState flag that was never written is read as FALSE / 0.         *)
(***************************************************************************)
EXTENDS Integers, Sequences, FiniteSets, TLC

\* ---------------------------------------------------------------- bounds
MaxProposals == 1       \* proposals created per governance contract
MaxEpoch     == 1       \* the clock covers 0..MaxEpoch whole periods ...
MaxOffset    == 2       \* ... plus 0..MaxOffset seconds (governance)
MaxLag       == 1       \* ... plus 0..MaxLag seconds (licenses)
MaxStakeUnits == 4      \* total stake explored: MaxStakeUnits minimum stakes
MaxPayments  == 2       \* payment records written by the treasury
MaxAmount    == 2       \* amounts of the treasury calls: 0..MaxAmount
MaxNfts      == 1       \* moderator NFTs created
MaxUses      == 3       \* recorded uses of one NFT
MaxDaos      == 1       \* DAOs created in the multi-DAO contract
MaxPurchases == 3       \* purchases made on the moderator purchase contract
MaxJoins     == 2       \* join_dao calls accepted by the simple DAO

\* ------------------------------------------------------ program constants
GovMinVotingPeriod == 3600
MaxSupport         == 2
DaoMinStakeFloor   == 100000
DaoMinVotingPeriod == 3600
MaxSharePercentage == 10000
SecondsPerDay      == 86400
CdaoMinMembers     == 2
CdaoMinStakeFloor  == 100000
CdaoMinVotingPeriod == 86400
CdaoMinThreshold   == 51
MpMicroAlgos       == 1000000
MpOwnerPercent     == 90
MpSecondsPerMonth  == 2592000
SdaoMinStakeFloor  == 100000
SdaoMinVotingPeriod == 3600

Accounts  == {"alice", "bob"}
NoAccount == "none"
Weights   == {1, 2}
Members   == {"alice", "bob", "carol"}
AppAddress == "app"          \* Global.current_application_address

VARIABLES
    now,                     \* Global.latest_timestamp
    last,                    \* the last call: [op, ok, caller, id, amt]
    \* CitadelGovernance (governance.py)
    gov_is_initialized,
    gov_dao_contract,
    gov_voting_delay,
    gov_voting_period,
    gov_proposal_threshold,
    gov_quorum_percentage,
    gov_proposal_count,
    gov_proposals,           \* BoxMap proposal id -> Proposal
    gov_votes,               \* BoxMap <<proposal id, voter>> -> Vote
    \* CitadelDAO (old_contract.py)
    dao_is_initialized,
    dao_info,
    dao_treasury_balance,
    dao_member_count,
    dao_total_stake,
    dao_members,             \* BoxMap account -> Member
    \* CitadelTreasury (treasury.py)
    tr_is_initialized,
    tr_total_balance,
    tr_total_distributed,
    tr_payment_count,
    tr_revenue_count,
    tr_dao_contract,
    tr_governance_contract,
    tr_payments,             \* BoxMap payment id -> PaymentRecord
    tr_revenue_shares,       \* BoxMap account -> RevenueShare
    tr_is_paused,
    tr_emergency_admin,
    \* CitadelModeratorNFT (nft_moderator.py)
    nft_is_initialized,
    nft_count,
    nft_license_count,
    nft_total_revenue,
    nft_dao_contract,
    nft_treasury_contract,
    nft_moderator_nfts,      \* BoxMap nft id -> ModeratorNFT
    nft_asset_to_nft,        \* BoxMap asset id -> nft id
    nft_licenses,            \* BoxMap license id -> ModeratorLicense
    nft_user_licenses,       \* BoxMap <<user, nft id>> -> license id
    \* CitadelDAO (contract.py)
    cdao_dao_configs,        \* BoxMap dao id -> DAOConfig
    cdao_proposals,          \* BoxMap proposal id -> ProposalData
    cdao_member_stakes,      \* BoxMap <<dao id, member>> -> stake
    cdao_votes,              \* BoxMap <<proposal id, voter>> -> 1 (yes) / 2 (no)
    cdao_treasury_balances,  \* BoxMap dao id -> balance
    cdao_dao_counter,
    cdao_proposal_counter,
    \* ModeratorPurchaseContract (moderator_purchase/contract.py)
    mp_contract_owner,
    mp_moderator_owner,
    mp_moderator_creator,
    mp_moderator_exists,     \* 0 until the creation call, then 1
    mp_hourly_price,
    mp_monthly_price,
    mp_buyout_price,
    mp_total_transactions,
    mp_total_revenue,
    mp_total_users,
    mp_user_access_type,     \* LocalState account -> 0 none, 1 hourly, 2 monthly, 3 buyout
    mp_access_expiry,        \* LocalState account -> timestamp
    mp_hours_remaining,      \* LocalState account -> hours
    mp_total_spent,          \* LocalState account -> microAlgos
    mp_owner_by_buyout,      \* history: moderator_owner was set by buyout_moderator
    \* SimpleCitadelDAO (simple_contract.py)
    sdao_dao_name,
    sdao_dao_description,
    sdao_creator,
    sdao_min_stake,
    sdao_voting_period,
    sdao_quorum_threshold,
    sdao_member_count,
    sdao_total_stake,
    sdao_treasury_balance,
    sdao_is_initialized,     \* 0 until the creation call, then 1
    sdao_is_active,
    sdao_paid_in,            \* history: account -> sum of its join_dao payments
    sdao_refunded            \* history: account -> sum of its leave_dao refunds

govVars == <<gov_is_initialized, gov_dao_contract, gov_voting_delay,
             gov_voting_period, gov_proposal_threshold, gov_quorum_percentage,
             gov_proposal_count, gov_proposals, gov_votes>>

daoVars == <<dao_is_initialized, dao_info, dao_treasury_balance,
             dao_member_count, dao_total_stake, dao_members>>

trVars == <<tr_is_initialized, tr_total_balance, tr_total_distributed,
            tr_payment_count, tr_revenue_count, tr_dao_contract,
            tr_governance_contract, tr_payments, tr_revenue_shares,
            tr_is_paused, tr_emergency_admin>>

nftVars == <<nft_is_initialized, nft_count, nft_license_count,
             nft_total_revenue, nft_dao_contract, nft_treasury_contract,
             nft_moderator_nfts, nft_asset_to_nft, nft_licenses,
             nft_user_licenses>>

cdaoVars == <<cdao_dao_configs, cdao_proposals, cdao_member_stakes,
              cdao_votes, cdao_treasury_balances, cdao_dao_counter,
              cdao_proposal_counter>>

mpVars == <<mp_contract_owner, mp_moderator_owner, mp_moderator_creator,
            mp_moderator_exists, mp_hourly_price, mp_monthly_price,
            mp_buyout_price, mp_total_transactions, mp_total_revenue,
            mp_total_users, mp_user_access_type, mp_access_expiry,
            mp_hours_remaining, mp_total_spent, mp_owner_by_buyout>>

sdaoVars == <<sdao_dao_name, sdao_dao_description, sdao_creator,
              sdao_min_stake, sdao_voting_period, sdao_quorum_threshold,
              sdao_member_count, sdao_total_stake, sdao_treasury_balance,
              sdao_is_initialized, sdao_is_active, sdao_paid_in,
              sdao_refunded>>

vars == <<now, last, govVars, daoVars, trVars, nftVars, cdaoVars, mpVars, sdaoVars>>

\* ------------------------------------------------------------- bookkeeping
Call(op, ok, caller, id, amt) ==
    [op |-> op, ok |-> ok, caller |-> caller, id |-> id, amt |-> amt]

EmptyMap == [x \in {} |-> 0]

RECURSIVE SumOver(_, _)
\* the sum of f[x] over the finite set S
SumOver(f, S) ==
    IF S = {} THEN 0
    ELSE LET x == CHOOSE y \in S : TRUE
         IN f[x] + SumOver(f, S \ {x})

\* clock readings: whole multiples of `unit` plus a few seconds
TimesOf(unit, offset) == {k * unit + j : k \in 0..MaxEpoch, j \in 0..offset}

\* the block timestamp moves forward to a later reading
Tick(T) ==
    /\ \E t \in T : t > now /\ now' = t
    /\ last' = Call("tick", TRUE, NoAccount, 0, 0)

\* ====================================================== CitadelGovernance
GovInit ==
    /\ gov_is_initialized = FALSE
    /\ gov_dao_contract = 0
    /\ gov_voting_delay = 0
    /\ gov_voting_period = 0
    /\ gov_proposal_threshold = 0
    /\ gov_quorum_percentage = 0
    /\ gov_proposal_count = 0
    /\ gov_proposals = EmptyMap
    /\ gov_votes = EmptyMap

Gov_initialize_asserts(dao_app_id, voting_delay, voting_period, proposal_threshold, quorum_percentage) ==
    /\ ~gov_is_initialized
    /\ dao_app_id > 0
    /\ voting_delay >= 0
    /\ voting_period >= GovMinVotingPeriod
    /\ proposal_threshold >= 0
    /\ 1 <= quorum_percentage /\ quorum_percentage <= 100

Gov_initialize_governance(dao_app_id, voting_delay, voting_period, proposal_threshold, quorum_percentage) ==
    IF Gov_initialize_asserts(dao_app_id, voting_delay, voting_period,
                              proposal_threshold, quorum_percentage)
    THEN /\ gov_dao_contract' = dao_app_id
         /\ gov_voting_delay' = voting_delay
         /\ gov_voting_period' = voting_period
         /\ gov_proposal_threshold' = proposal_threshold
         /\ gov_quorum_percentage' = quorum_percentage
         /\ gov_proposal_count' = 0
         /\ gov_is_initialized' = TRUE
         /\ UNCHANGED <<gov_proposals, gov_votes>>
         /\ last' = Call("gov.initialize_governance", TRUE, NoAccount, 0, 0)
    ELSE /\ UNCHANGED govVars
         /\ last' = Call("gov.initialize_governance", FALSE, NoAccount, 0, 0)

\* initialize_governance on the contract as deployed.  __init__ declares the
\* is_initialized flag without a value, so the first `self.is_initialized.value`
\* reads a key that was never written: flag_read_ok says whether that read
\* yields the zero value (FALSE) or is refused, which fails the call.  A
\* call refused there is recorded with id 1 when its parameters were valid.
Gov_initialize_fresh(dao_app_id, voting_delay, voting_period, proposal_threshold, quorum_percentage, flag_read_ok) ==
    IF gov_is_initialized \/ flag_read_ok
    THEN Gov_initialize_governance(dao_app_id, voting_delay, voting_period, proposal_threshold, quorum_percentage)
    ELSE /\ UNCHANGED govVars
         /\ last' = Call("gov.initialize_governance", FALSE, NoAccount,
                         IF Gov_initialize_asserts(dao_app_id, voting_delay, voting_period, proposal_threshold, quorum_percentage)
                         THEN 1 ELSE 0,
                         0)

Gov_create_proposal_asserts(title, description) ==
    /\ gov_is_initialized
    /\ Len(title) > 0
    /\ Len(description) > 0

\* create_proposal with voting_end counted from the creation time
Gov_create_proposal_EndFromNow(caller, title, description, execution_data) ==
    IF Gov_create_proposal_asserts(title, description)
    THEN LET proposal_id  == gov_proposal_count + 1
             current_time == now
             voting_start == current_time + gov_voting_delay
             voting_end   == current_time + gov_voting_period
             proposal == [id |-> proposal_id,
                          title |-> title,
                          description |-> description,
                          creator |-> caller,
                          created_at |-> current_time,
                          voting_start |-> voting_start,
                          voting_end |-> voting_end,
                          votes_for |-> 0,
                          votes_against |-> 0,
                          votes_abstain |-> 0,
                          status |-> "pending",
                          execution_data |-> execution_data]
         IN /\ gov_proposal_count' = proposal_id
            /\ gov_proposals' = (proposal_id :> proposal) @@ gov_proposals
            /\ UNCHANGED <<gov_is_initialized, gov_dao_contract,
                           gov_voting_delay, gov_voting_period,
                           gov_proposal_threshold, gov_quorum_percentage,
                           gov_votes>>
            /\ last' = Call("gov.create_proposal", TRUE, caller, proposal_id, 0)
    ELSE /\ UNCHANGED govVars
         /\ last' = Call("gov.create_proposal", FALSE, caller, 0, 0)

Gov_create_proposal(caller, title, description, execution_data) ==
    IF Gov_create_proposal_asserts(title, description)
    THEN LET proposal_id  == gov_proposal_count + 1
             current_time == now
             voting_start == current_time + gov_voting_delay
             voting_end   == voting_start + gov_voting_period
             proposal == [id |-> proposal_id,
                          title |-> title,
                          description |-> description,
                          creator |-> caller,
                          created_at |-> current_time,
                          voting_start |-> voting_start,
                          voting_end |-> voting_end,
                          votes_for |-> 0,
                          votes_against |-> 0,
                          votes_abstain |-> 0,
                          status |-> "pending",
                          execution_data |-> execution_data]
         IN /\ gov_proposal_count' = proposal_id
            /\ gov_proposals' = (proposal_id :> proposal) @@ gov_proposals
            /\ UNCHANGED <<gov_is_initialized, gov_dao_contract,
                           gov_voting_delay, gov_voting_period,
                           gov_proposal_threshold, gov_quorum_percentage,
                           gov_votes>>
            /\ last' = Call("gov.create_proposal", TRUE, caller, proposal_id, 0)
    ELSE /\ UNCHANGED govVars
         /\ last' = Call("gov.create_proposal", FALSE, caller, 0, 0)

\* cast_vote without the has-already-voted assertion
Gov_cast_vote_asserts_NoDup(caller, proposal_id, support) ==
    /\ gov_is_initialized
    /\ support <= MaxSupport
    /\ proposal_id \in DOMAIN gov_proposals
    /\ now >= gov_proposals[proposal_id].voting_start
    /\ now <= gov_proposals[proposal_id].voting_end
    /\ gov_proposals[proposal_id].status \in {"pending", "active"}

\* cast_vote without the voting-has-started assertion
Gov_cast_vote_asserts_NoStart(caller, proposal_id, support) ==
    /\ gov_is_initialized
    /\ support <= MaxSupport
    /\ proposal_id \in DOMAIN gov_proposals
    /\ now <= gov_proposals[proposal_id].voting_end
    /\ gov_proposals[proposal_id].status \in {"pending", "active"}
    /\ <<proposal_id, caller>> \notin DOMAIN gov_votes

\* cast_vote that stays open: no voting-ended and no status assertion
Gov_cast_vote_asserts_NoClose(caller, proposal_id, support) ==
    /\ gov_is_initialized
    /\ support <= MaxSupport
    /\ proposal_id \in DOMAIN gov_proposals
    /\ now >= gov_proposals[proposal_id].voting_start
    /\ <<proposal_id, caller>> \notin DOMAIN gov_votes

Gov_cast_vote_asserts(caller, proposal_id, support) ==
    /\ gov_is_initialized
    /\ support <= MaxSupport
    /\ proposal_id \in DOMAIN gov_proposals
    /\ now >= gov_proposals[proposal_id].voting_start
    /\ now <= gov_proposals[proposal_id].voting_end
    /\ gov_proposals[proposal_id].status \in {"pending", "active"}
    /\ <<proposal_id, caller>> \notin DOMAIN gov_votes

\* the tally update with abstentions added to votes_for
Gov_tally_AbstainAsFor(proposal, support, weight) ==
    LET counted ==
            IF support = 0
            THEN [proposal EXCEPT !.votes_against = @ + weight]
            ELSE [proposal EXCEPT !.votes_for = @ + weight]
    IN IF counted.status = "pending"
       THEN [counted EXCEPT !.status = "active"]
       ELSE counted

\* the tally update and the pending -> active switch of cast_vote
Gov_tally(proposal, support, weight) ==
    LET counted ==
            IF support = 0
            THEN [proposal EXCEPT !.votes_against = @ + weight]
            ELSE IF support = 1
                 THEN [proposal EXCEPT !.votes_for = @ + weight]
                 ELSE [proposal EXCEPT !.votes_abstain = @ + weight]
    IN IF counted.status = "pending"
       THEN [counted EXCEPT !.status = "active"]
       ELSE counted

Gov_cast_vote(caller, proposal_id, support, weight) ==
    IF Gov_cast_vote_asserts(caller, proposal_id, support)
    THEN LET vote == [voter |-> caller,
                      proposal_id |-> proposal_id,
                      support |-> support,
                      weight |-> weight,
                      timestamp |-> now]
         IN /\ gov_votes' = (<<proposal_id, caller>> :> vote) @@ gov_votes
            /\ gov_proposals' =
                   [gov_proposals EXCEPT
                       ![proposal_id] = Gov_tally(@, support, weight)]
            /\ UNCHANGED <<gov_is_initialized, gov_dao_contract,
                           gov_voting_delay, gov_voting_period,
                           gov_proposal_threshold, gov_quorum_percentage,
                           gov_proposal_count>>
            /\ last' = Call("gov.cast_vote", TRUE, caller, proposal_id, 0)
    ELSE /\ UNCHANGED govVars
         /\ last' = Call("gov.cast_vote", FALSE, caller, proposal_id, 0)

\* finalize_proposal without the voting-period-ended assertion
Gov_finalize_asserts_NoTime(proposal_id) ==
    /\ gov_is_initialized
    /\ proposal_id \in DOMAIN gov_proposals
    /\ gov_proposals[proposal_id].status \in {"active", "pending"}

\* finalize_proposal without the status assertion
Gov_finalize_asserts_NoStatus(proposal_id) ==
    /\ gov_is_initialized
    /\ proposal_id \in DOMAIN gov_proposals
    /\ now > gov_proposals[proposal_id].voting_end

\* finalize_proposal that accepts active proposals only
Gov_finalize_asserts_ActiveOnly(proposal_id) ==
    /\ gov_is_initialized
    /\ proposal_id \in DOMAIN gov_proposals
    /\ now > gov_proposals[proposal_id].voting_end
    /\ gov_proposals[proposal_id].status = "active"

Gov_finalize_asserts(proposal_id) ==
    /\ gov_is_initialized
    /\ proposal_id \in DOMAIN gov_proposals
    /\ now > gov_proposals[proposal_id].voting_end
    /\ gov_proposals[proposal_id].status \in {"active", "pending"}

\* the outcome rule of finalize_proposal: a simple majority of the weights
Gov_outcome(proposal) ==
    IF proposal.votes_for > proposal.votes_against
    THEN "passed"
    ELSE "rejected"

Gov_finalize_proposal(proposal_id) ==
    IF Gov_finalize_asserts(proposal_id)
    THEN /\ gov_proposals' =
                [gov_proposals EXCEPT
                    ![proposal_id].status = Gov_outcome(gov_proposals[proposal_id])]
         /\ UNCHANGED <<gov_is_initialized, gov_dao_contract,
                        gov_voting_delay, gov_voting_period,
                        gov_proposal_threshold, gov_quorum_percentage,
                        gov_proposal_count, gov_votes>>
         /\ last' = Call("gov.finalize_proposal", TRUE, NoAccount, proposal_id, 0)
    ELSE /\ UNCHANGED govVars
         /\ last' = Call("gov.finalize_proposal", FALSE, NoAccount, proposal_id, 0)

Gov_execute_asserts(proposal_id) ==
    /\ gov_is_initialized
    /\ proposal_id \in DOMAIN gov_proposals
    /\ gov_proposals[proposal_id].status = "passed"

Gov_execute_proposal(proposal_id) ==
    IF Gov_execute_asserts(proposal_id)
    THEN /\ gov_proposals' =
                [gov_proposals EXCEPT ![proposal_id].status = "executed"]
         /\ UNCHANGED <<gov_is_initialized, gov_dao_contract,
                        gov_voting_delay, gov_voting_period,
                        gov_proposal_threshold, gov_quorum_percentage,
                        gov_proposal_count, gov_votes>>
         /\ last' = Call("gov.execute_proposal", TRUE, NoAccount, proposal_id, 0)
    ELSE /\ UNCHANGED govVars
         /\ last' = Call("gov.execute_proposal", FALSE, NoAccount, proposal_id, 0)

\* ---- the calls the environment makes on the governance contract
GovTimes == TimesOf(GovMinVotingPeriod, MaxOffset)
GovProposalIds == 1..(MaxProposals + 1)

GovInitialize ==
    \E dao_app_id \in {0, 1}, voting_delay \in {1},
       voting_period \in {GovMinVotingPeriod - 1, GovMinVotingPeriod},
       quorum_percentage \in {0, 60, 101} :
        /\ Gov_initialize_governance(dao_app_id, voting_delay,
                                     voting_period, 0, quorum_percentage)
        /\ UNCHANGED <<now, daoVars, trVars, nftVars, cdaoVars, mpVars, sdaoVars>>

GovCreateProposal ==
    \E caller \in Accounts, title \in {"", "t"}, description \in {"", "d"} :
        /\ gov_proposal_count < MaxProposals
        /\ Gov_create_proposal(caller, title, description, "")
        /\ UNCHANGED <<now, daoVars, trVars, nftVars, cdaoVars, mpVars, sdaoVars>>

GovCastVoteBy(callers, weights) ==
    \E caller \in callers, proposal_id \in GovProposalIds,
       support \in 0..(MaxSupport + 1), weight \in weights :
        /\ Gov_cast_vote(caller, proposal_id, support, weight)
        /\ UNCHANGED <<now, daoVars, trVars, nftVars, cdaoVars, mpVars, sdaoVars>>

GovCastVote == GovCastVoteBy(Accounts, Weights)

GovFinalizeProposal ==
    \E proposal_id \in GovProposalIds :
        /\ Gov_finalize_proposal(proposal_id)
        /\ UNCHANGED <<now, daoVars, trVars, nftVars, cdaoVars, mpVars, sdaoVars>>

GovExecuteProposal ==
    \E proposal_id \in GovProposalIds :
        /\ Gov_execute_proposal(proposal_id)
        /\ UNCHANGED <<now, daoVars, trVars, nftVars, cdaoVars, mpVars, sdaoVars>>

GovTick == Tick(GovTimes) /\ UNCHANGED <<govVars, daoVars, trVars, nftVars, cdaoVars, mpVars, sdaoVars>>

\* ============================================= CitadelDAO (old_contract.py)
\* a payment transaction of the group: [receiver, sender, amount]
Payment(receiver, sender, amount) ==
    [receiver |-> receiver, sender |-> sender, amount |-> amount]

NoDaoInfo ==
    [name |-> "", description |-> "", creator |-> NoAccount, min_stake |-> 0,
     voting_period |-> 0, quorum_threshold |-> 0, created_at |-> 0,
     is_active |-> FALSE]

DaoInit ==
    /\ dao_is_initialized = FALSE
    /\ dao_info = NoDaoInfo
    /\ dao_treasury_balance = 0
    /\ dao_member_count = 0
    /\ dao_total_stake = 0
    /\ dao_members = EmptyMap

Dao_initialize_asserts(caller, name, description, min_stake, voting_period, quorum_threshold, initial_payment) ==
    /\ ~dao_is_initialized
    /\ name # ""
    /\ description # ""
    /\ min_stake >= DaoMinStakeFloor
    /\ voting_period >= DaoMinVotingPeriod
    /\ 1 <= quorum_threshold /\ quorum_threshold <= 100
    /\ initial_payment.receiver = AppAddress
    /\ initial_payment.sender = caller
    /\ initial_payment.amount >= min_stake

Dao_initialize_dao(caller, name, description, min_stake, voting_period, quorum_threshold, initial_payment) ==
    IF Dao_initialize_asserts(caller, name, description, min_stake,
                              voting_period, quorum_threshold, initial_payment)
    THEN /\ dao_info' = [name |-> name,
                         description |-> description,
                         creator |-> caller,
                         min_stake |-> min_stake,
                         voting_period |-> voting_period,
                         quorum_threshold |-> quorum_threshold,
                         created_at |-> now,
                         is_active |-> TRUE]
         /\ dao_members' =
                (caller :> [address |-> caller,
                            stake |-> initial_payment.amount,
                            joined_at |-> now,
                            is_active |-> TRUE]) @@ dao_members
         /\ dao_member_count' = 1
         /\ dao_total_stake' = initial_payment.amount
         /\ dao_treasury_balance' = initial_payment.amount
         /\ dao_is_initialized' = TRUE
         /\ last' = Call("dao.initialize_dao", TRUE, caller, 0, initial_payment.amount)
    ELSE /\ UNCHANGED daoVars
         /\ last' = Call("dao.initialize_dao", FALSE, caller, 0, initial_payment.amount)

\* join_dao without the minimum-stake assertion
Dao_join_asserts_NoMinStake(caller, payment) ==
    /\ dao_is_initialized
    /\ dao_info.is_active
    /\ payment.receiver = AppAddress
    /\ payment.sender = caller
    /\ caller \notin DOMAIN dao_members

\* join_dao that refuses active members only
Dao_join_asserts_Rejoin(caller, payment) ==
    /\ dao_is_initialized
    /\ dao_info.is_active
    /\ payment.receiver = AppAddress
    /\ payment.sender = caller
    /\ payment.amount >= dao_info.min_stake
    /\ caller \in DOMAIN dao_members => ~dao_members[caller].is_active

Dao_join_asserts(caller, payment) ==
    /\ dao_is_initialized
    /\ dao_info.is_active
    /\ payment.receiver = AppAddress
    /\ payment.sender = caller
    /\ payment.amount >= dao_info.min_stake
    /\ caller \notin DOMAIN dao_members

Dao_join_dao(caller, payment) ==
    IF Dao_join_asserts(caller, payment)
    THEN /\ dao_members' =
                (caller :> [address |-> caller,
                            stake |-> payment.amount,
                            joined_at |-> now,
                            is_active |-> TRUE]) @@ dao_members
         /\ dao_member_count' = dao_member_count + 1
         /\ dao_total_stake' = dao_total_stake + payment.amount
         /\ dao_treasury_balance' = dao_treasury_balance + payment.amount
         /\ UNCHANGED <<dao_is_initialized, dao_info>>
         /\ last' = Call("dao.join_dao", TRUE, caller, 0, payment.amount)
    ELSE /\ UNCHANGED daoVars
         /\ last' = Call("dao.join_dao", FALSE, caller, 0, payment.amount)

Dao_increase_stake_asserts(caller, payment) ==
    /\ dao_is_initialized
    /\ payment.receiver = AppAddress
    /\ payment.sender = caller
    /\ payment.amount > 0
    /\ caller \in DOMAIN dao_members
    /\ dao_members[caller].is_active

Dao_increase_stake(caller, payment) ==
    IF Dao_increase_stake_asserts(caller, payment)
    THEN /\ dao_members' =
                [dao_members EXCEPT ![caller].stake = @ + payment.amount]
         /\ dao_total_stake' = dao_total_stake + payment.amount
         /\ dao_treasury_balance' = dao_treasury_balance + payment.amount
         /\ UNCHANGED <<dao_is_initialized, dao_info, dao_member_count>>
         /\ last' = Call("dao.increase_stake", TRUE, caller, 0, payment.amount)
    ELSE /\ UNCHANGED daoVars
         /\ last' = Call("dao.increase_stake", FALSE, caller, 0, payment.amount)

\* leave_dao without the creator-is-the-only-member assertion
Dao_leave_asserts_NoCreator(caller) ==
    /\ dao_is_initialized
    /\ caller \in DOMAIN dao_members
    /\ dao_members[caller].is_active

Dao_leave_asserts(caller) ==
    /\ dao_is_initialized
    /\ caller \in DOMAIN dao_members
    /\ dao_members[caller].is_active
    /\ ~(dao_info.creator = caller /\ dao_member_count = 1)

\* leave_dao that clears the member's flag and keeps the member counter
Dao_leave_effect_NoCount(caller) ==
    /\ dao_members' = [dao_members EXCEPT ![caller].is_active = FALSE]
    /\ UNCHANGED <<dao_is_initialized, dao_info, dao_total_stake,
                   dao_treasury_balance, dao_member_count>>

\* what leave_dao writes: the member's flag and the member counter only
Dao_leave_effect(caller) ==
    /\ dao_members' = [dao_members EXCEPT ![caller].is_active = FALSE]
    /\ dao_member_count' = dao_member_count - 1
    /\ UNCHANGED <<dao_is_initialized, dao_info, dao_total_stake,
                   dao_treasury_balance>>

Dao_leave_dao(caller) ==
    IF Dao_leave_asserts(caller)
    THEN /\ Dao_leave_effect(caller)
         /\ last' = Call("dao.leave_dao", TRUE, caller, 0, 0)
    ELSE /\ UNCHANGED daoVars
         /\ last' = Call("dao.leave_dao", FALSE, caller, 0, 0)

\* the emergency switch without the creator assertion
Dao_emergency_asserts_NoCreator(caller) ==
    /\ dao_is_initialized

Dao_emergency_asserts(caller) ==
    /\ dao_is_initialized
    /\ dao_info.creator = caller

Dao_emergency_pause(caller) ==
    IF Dao_emergency_asserts(caller)
    THEN /\ dao_info' = [dao_info EXCEPT !.is_active = FALSE]
         /\ UNCHANGED <<dao_is_initialized, dao_treasury_balance,
                        dao_member_count, dao_total_stake, dao_members>>
         /\ last' = Call("dao.emergency_pause", TRUE, caller, 0, 0)
    ELSE /\ UNCHANGED daoVars
         /\ last' = Call("dao.emergency_pause", FALSE, caller, 0, 0)

Dao_emergency_unpause(caller) ==
    IF Dao_emergency_asserts(caller)
    THEN /\ dao_info' = [dao_info EXCEPT !.is_active = TRUE]
         /\ UNCHANGED <<dao_is_initialized, dao_treasury_balance,
                        dao_member_count, dao_total_stake, dao_members>>
         /\ last' = Call("dao.emergency_unpause", TRUE, caller, 0, 0)
    ELSE /\ UNCHANGED daoVars
         /\ last' = Call("dao.emergency_unpause", FALSE, caller, 0, 0)

\* ---- the calls the environment makes on the DAO contract
DaoAmounts == {0, DaoMinStakeFloor - 1, DaoMinStakeFloor,
               DaoMinStakeFloor + DaoMinStakeFloor \div 2}
DaoStakeCap == MaxStakeUnits * DaoMinStakeFloor

\* a payment to the contract by the caller, or one that is misdirected
DaoPayments(caller) ==
    {Payment(AppAddress, caller, a) : a \in DaoAmounts}
        \cup {Payment(caller, caller, DaoMinStakeFloor)}
        \cup {Payment(AppAddress, NoAccount, DaoMinStakeFloor)}

\* <<name, description, min_stake, voting_period, quorum_threshold>>:
\* a valid configuration and the ones with a single parameter out of range
DaoInitArgs ==
    {<<"n", "d", DaoMinStakeFloor, DaoMinVotingPeriod, 60>>,
     <<"",  "d", DaoMinStakeFloor, DaoMinVotingPeriod, 60>>,
     <<"n", "",  DaoMinStakeFloor, DaoMinVotingPeriod, 60>>,
     <<"n", "d", DaoMinStakeFloor - 1, DaoMinVotingPeriod, 60>>,
     <<"n", "d", DaoMinStakeFloor, DaoMinVotingPeriod - 1, 60>>,
     <<"n", "d", DaoMinStakeFloor, DaoMinVotingPeriod, 0>>,
     <<"n", "d", DaoMinStakeFloor, DaoMinVotingPeriod, 101>>}

DaoInitializeBy(callers) ==
    \E caller \in callers, a \in DaoInitArgs :
      \E payment \in DaoPayments(caller) :
        /\ Dao_initialize_dao(caller, a[1], a[2], a[3], a[4], a[5], payment)
        /\ UNCHANGED <<now, govVars, trVars, nftVars, cdaoVars, mpVars, sdaoVars>>

DaoInitialize == DaoInitializeBy(Members)

DaoJoinBy(callers) ==
    \E caller \in callers : \E payment \in DaoPayments(caller) :
        /\ dao_total_stake + payment.amount <= DaoStakeCap
        /\ Dao_join_dao(caller, payment)
        /\ UNCHANGED <<now, govVars, trVars, nftVars, cdaoVars, mpVars, sdaoVars>>

DaoJoin == DaoJoinBy(Members)

DaoIncreaseStake ==
    \E caller \in Members : \E payment \in DaoPayments(caller) :
        /\ dao_total_stake + payment.amount <= DaoStakeCap
        /\ Dao_increase_stake(caller, payment)
        /\ UNCHANGED <<now, govVars, trVars, nftVars, cdaoVars, mpVars, sdaoVars>>

DaoLeave ==
    \E caller \in Members :
        /\ Dao_leave_dao(caller)
        /\ UNCHANGED <<now, govVars, trVars, nftVars, cdaoVars, mpVars, sdaoVars>>

DaoEmergencyPause ==
    \E caller \in Members :
        /\ Dao_emergency_pause(caller)
        /\ UNCHANGED <<now, govVars, trVars, nftVars, cdaoVars, mpVars, sdaoVars>>

DaoEmergencyUnpause ==
    \E caller \in Members :
        /\ Dao_emergency_unpause(caller)
        /\ UNCHANGED <<now, govVars, trVars, nftVars, cdaoVars, mpVars, sdaoVars>>

NextDao ==
    \/ DaoInitialize
    \/ DaoJoin
    \/ DaoIncreaseStake
    \/ DaoLeave
    \/ DaoEmergencyPause
    \/ DaoEmergencyUnpause


\* ===================================================== CitadelTreasury
TrInit ==
    /\ tr_is_initialized = FALSE
    /\ tr_total_balance = 0
    /\ tr_total_distributed = 0
    /\ tr_payment_count = 0
    /\ tr_revenue_count = 0
    /\ tr_dao_contract = 0
    /\ tr_governance_contract = 0
    /\ tr_payments = EmptyMap
    /\ tr_revenue_shares = EmptyMap
    /\ tr_is_paused = FALSE
    /\ tr_emergency_admin = NoAccount

Tr_initialize_asserts(dao_app_id, governance_app_id) ==
    /\ ~tr_is_initialized
    /\ dao_app_id > 0
    /\ governance_app_id > 0

Tr_initialize_treasury(dao_app_id, governance_app_id, emergency_admin) ==
    IF Tr_initialize_asserts(dao_app_id, governance_app_id)
    THEN /\ tr_dao_contract' = dao_app_id
         /\ tr_governance_contract' = governance_app_id
         /\ tr_emergency_admin' = emergency_admin
         /\ tr_total_balance' = 0
         /\ tr_total_distributed' = 0
         /\ tr_payment_count' = 0
         /\ tr_revenue_count' = 0
         /\ tr_is_paused' = FALSE
         /\ tr_is_initialized' = TRUE
         /\ UNCHANGED <<tr_payments, tr_revenue_shares>>
         /\ last' = Call("tr.initialize_treasury", TRUE, NoAccount, 0, 0)
    ELSE /\ UNCHANGED trVars
         /\ last' = Call("tr.initialize_treasury", FALSE, NoAccount, 0, 0)

\* the PaymentRecord both receive_funds and authorize_payment append
\* a payment record that does not carry the amount
Tr_record_NoAmount(payment_id, recipient, amount, purpose, executed_by) ==
    [id |-> payment_id, recipient |-> recipient, amount |-> 0,
     purpose |-> purpose, timestamp |-> now, executed_by |-> executed_by]

\* a payment record numbered from the counter before its increment
Tr_record_OldId(payment_id, recipient, amount, purpose, executed_by) ==
    [id |-> payment_id - 1, recipient |-> recipient, amount |-> amount,
     purpose |-> purpose, timestamp |-> now, executed_by |-> executed_by]

Tr_record(payment_id, recipient, amount, purpose, executed_by) ==
    [id |-> payment_id, recipient |-> recipient, amount |-> amount,
     purpose |-> purpose, timestamp |-> now, executed_by |-> executed_by]

Tr_receive_asserts(payment) ==
    /\ tr_is_initialized
    /\ ~tr_is_paused
    /\ payment.receiver = AppAddress
    /\ payment.amount > 0

\* the value receive_funds returns: total_balance read after the update
Tr_receive_funds_returns == tr_total_balance'

Tr_receive_funds(payment, purpose) ==
    IF Tr_receive_asserts(payment)
    THEN LET payment_id == tr_payment_count + 1
         IN /\ tr_total_balance' = tr_total_balance + payment.amount
            /\ tr_payment_count' = payment_id
            /\ tr_payments' =
                   (payment_id :> Tr_record(payment_id, AppAddress,
                                            payment.amount, purpose,
                                            payment.sender)) @@ tr_payments
            /\ UNCHANGED <<tr_is_initialized, tr_total_distributed,
                           tr_revenue_count, tr_dao_contract,
                           tr_governance_contract, tr_revenue_shares,
                           tr_is_paused, tr_emergency_admin>>
            /\ last' = Call("tr.receive_funds", TRUE, NoAccount, 0, payment.amount)
    ELSE /\ UNCHANGED trVars
         /\ last' = Call("tr.receive_funds", FALSE, NoAccount, 0, payment.amount)

\* authorize_payment without the sufficient-balance assertion
Tr_authorize_asserts_NoBalance(amount) ==
    /\ tr_is_initialized
    /\ ~tr_is_paused
    /\ amount > 0

Tr_authorize_asserts(amount) ==
    /\ tr_is_initialized
    /\ ~tr_is_paused
    /\ amount > 0
    /\ amount <= tr_total_balance

\* itxn_ok: whether the inner payment to the recipient is accepted
Tr_authorize_payment(caller, recipient, amount, purpose, itxn_ok) ==
    IF Tr_authorize_asserts(amount) /\ itxn_ok
    THEN LET payment_id == tr_payment_count + 1
         IN /\ tr_total_balance' = tr_total_balance - amount
            /\ tr_total_distributed' = tr_total_distributed + amount
            /\ tr_payment_count' = payment_id
            /\ tr_payments' =
                   (payment_id :> Tr_record(payment_id, recipient, amount,
                                            purpose, caller)) @@ tr_payments
            /\ UNCHANGED <<tr_is_initialized, tr_revenue_count,
                           tr_dao_contract, tr_governance_contract,
                           tr_revenue_shares, tr_is_paused,
                           tr_emergency_admin>>
            /\ last' = Call("tr.authorize_payment", TRUE, caller, 0, amount)
    ELSE /\ UNCHANGED trVars
         /\ last' = Call("tr.authorize_payment", FALSE, caller, 0, amount)

Tr_distribute_asserts(revenue_amount) ==
    /\ tr_is_initialized
    /\ ~tr_is_paused
    /\ revenue_amount > 0
    /\ revenue_amount <= tr_total_balance

\* what distribute_revenue writes: three counters, no RevenueShare record
Tr_distribute_effect(revenue_amount) ==
    /\ tr_revenue_count' = tr_revenue_count + 1
    /\ tr_total_distributed' = tr_total_distributed + revenue_amount
    /\ tr_total_balance' = tr_total_balance - revenue_amount
    /\ UNCHANGED <<tr_is_initialized, tr_payment_count, tr_dao_contract,
                   tr_governance_contract, tr_payments, tr_revenue_shares,
                   tr_is_paused, tr_emergency_admin>>

Tr_distribute_revenue(revenue_amount, member_addresses) ==
    IF Tr_distribute_asserts(revenue_amount)
    THEN /\ Tr_distribute_effect(revenue_amount)
         /\ last' = Call("tr.distribute_revenue", TRUE, NoAccount, 0, revenue_amount)
    ELSE /\ UNCHANGED trVars
         /\ last' = Call("tr.distribute_revenue", FALSE, NoAccount, 0, revenue_amount)

Tr_set_share_asserts(share_percentage) ==
    /\ tr_is_initialized
    /\ share_percentage <= MaxSharePercentage

Tr_set_revenue_share(member, share_percentage) ==
    IF Tr_set_share_asserts(share_percentage)
    THEN /\ tr_revenue_shares' =
                IF member \in DOMAIN tr_revenue_shares
                THEN [tr_revenue_shares EXCEPT
                         ![member].share_percentage = share_percentage]
                ELSE (member :> [member |-> member,
                                 share_percentage |-> share_percentage,
                                 total_received |-> 0,
                                 last_distribution |-> 0]) @@ tr_revenue_shares
         /\ UNCHANGED <<tr_is_initialized, tr_total_balance,
                        tr_total_distributed, tr_payment_count,
                        tr_revenue_count, tr_dao_contract,
                        tr_governance_contract, tr_payments, tr_is_paused,
                        tr_emergency_admin>>
         /\ last' = Call("tr.set_revenue_share", TRUE, member, 0, share_percentage)
    ELSE /\ UNCHANGED trVars
         /\ last' = Call("tr.set_revenue_share", FALSE, member, 0, share_percentage)

Tr_emergency_asserts(caller) ==
    /\ tr_is_initialized
    /\ caller = tr_emergency_admin

Tr_emergency_pause(caller) ==
    IF Tr_emergency_asserts(caller)
    THEN /\ tr_is_paused' = TRUE
         /\ UNCHANGED <<tr_is_initialized, tr_total_balance,
                        tr_total_distributed, tr_payment_count,
                        tr_revenue_count, tr_dao_contract,
                        tr_governance_contract, tr_payments,
                        tr_revenue_shares, tr_emergency_admin>>
         /\ last' = Call("tr.emergency_pause", TRUE, caller, 0, 0)
    ELSE /\ UNCHANGED trVars
         /\ last' = Call("tr.emergency_pause", FALSE, caller, 0, 0)

Tr_emergency_unpause(caller) ==
    IF Tr_emergency_asserts(caller)
    THEN /\ tr_is_paused' = FALSE
         /\ UNCHANGED <<tr_is_initialized, tr_total_balance,
                        tr_total_distributed, tr_payment_count,
                        tr_revenue_count, tr_dao_contract,
                        tr_governance_contract, tr_payments,
                        tr_revenue_shares, tr_emergency_admin>>
         /\ last' = Call("tr.emergency_unpause", TRUE, caller, 0, 0)
    ELSE /\ UNCHANGED trVars
         /\ last' = Call("tr.emergency_unpause", FALSE, caller, 0, 0)

\* emergency_withdraw without the caller-is-admin assertion
Tr_withdraw_asserts_NoAdmin(caller, amount) ==
    /\ tr_is_initialized
    /\ amount <= tr_total_balance

Tr_withdraw_asserts(caller, amount) ==
    /\ tr_is_initialized
    /\ caller = tr_emergency_admin
    /\ amount <= tr_total_balance

Tr_emergency_withdraw(caller, recipient, amount, itxn_ok) ==
    IF Tr_withdraw_asserts(caller, amount) /\ itxn_ok
    THEN /\ tr_total_balance' = tr_total_balance - amount
         /\ UNCHANGED <<tr_is_initialized, tr_total_distributed,
                        tr_payment_count, tr_revenue_count, tr_dao_contract,
                        tr_governance_contract, tr_payments,
                        tr_revenue_shares, tr_is_paused, tr_emergency_admin>>
         /\ last' = Call("tr.emergency_withdraw", TRUE, caller, 0, amount)
    ELSE /\ UNCHANGED trVars
         /\ last' = Call("tr.emergency_withdraw", FALSE, caller, 0, amount)

\* ---- the calls the environment makes on the treasury contract
TrAmounts == 0..MaxAmount
TrShares  == {MaxSharePercentage \div 2, MaxSharePercentage,
              MaxSharePercentage + 1}
TrOthers  == <<now, govVars, daoVars, nftVars, cdaoVars, mpVars, sdaoVars>>

TrInitialize ==
    \E dao_app_id \in {0, 1}, governance_app_id \in {0, 2},
       emergency_admin \in {"alice"} :
        /\ Tr_initialize_treasury(dao_app_id, governance_app_id, emergency_admin)
        /\ UNCHANGED TrOthers

TrReceiveFunds ==
    \E sender \in Accounts, receiver \in {AppAddress, NoAccount},
       amount \in TrAmounts :
        /\ tr_payment_count < MaxPayments
        /\ Tr_receive_funds(Payment(receiver, sender, amount), "p")
        /\ UNCHANGED TrOthers

TrAuthorizePayment ==
    \E caller \in Accounts, recipient \in Accounts, amount \in TrAmounts,
       itxn_ok \in BOOLEAN :
        /\ tr_payment_count < MaxPayments
        /\ Tr_authorize_payment(caller, recipient, amount, "p", itxn_ok)
        /\ UNCHANGED TrOthers

TrDistributeRevenue ==
    \E amount \in TrAmounts :
        /\ Tr_distribute_revenue(amount, "[]")
        /\ UNCHANGED TrOthers

TrSetRevenueShare ==
    \E member \in Accounts, share_percentage \in TrShares :
        /\ Tr_set_revenue_share(member, share_percentage)
        /\ UNCHANGED TrOthers

TrEmergencyPause ==
    \E caller \in Accounts :
        /\ Tr_emergency_pause(caller)
        /\ UNCHANGED TrOthers

TrEmergencyUnpause ==
    \E caller \in Accounts :
        /\ Tr_emergency_unpause(caller)
        /\ UNCHANGED TrOthers

TrEmergencyWithdraw ==
    \E caller \in Accounts, recipient \in {"bob"}, amount \in TrAmounts,
       itxn_ok \in BOOLEAN :
        /\ Tr_emergency_withdraw(caller, recipient, amount, itxn_ok)
        /\ UNCHANGED TrOthers

NextTr ==
    \/ TrInitialize
    \/ TrReceiveFunds
    \/ TrAuthorizePayment
    \/ TrDistributeRevenue
    \/ TrSetRevenueShare
    \/ TrEmergencyPause
    \/ TrEmergencyUnpause
    \/ TrEmergencyWithdraw


\* ================================================= CitadelModeratorNFT
NftInit ==
    /\ nft_is_initialized = FALSE
    /\ nft_count = 0
    /\ nft_license_count = 0
    /\ nft_total_revenue = 0
    /\ nft_dao_contract = 0
    /\ nft_treasury_contract = 0
    /\ nft_moderator_nfts = EmptyMap
    /\ nft_asset_to_nft = EmptyMap
    /\ nft_licenses = EmptyMap
    /\ nft_user_licenses = EmptyMap

Nft_initialize_asserts(dao_app_id, treasury_app_id) ==
    /\ ~nft_is_initialized
    /\ dao_app_id > 0
    /\ treasury_app_id > 0

Nft_initialize_nft_contract(dao_app_id, treasury_app_id) ==
    IF Nft_initialize_asserts(dao_app_id, treasury_app_id)
    THEN /\ nft_dao_contract' = dao_app_id
         /\ nft_treasury_contract' = treasury_app_id
         /\ nft_count' = 0
         /\ nft_license_count' = 0
         /\ nft_total_revenue' = 0
         /\ nft_is_initialized' = TRUE
         /\ UNCHANGED <<nft_moderator_nfts, nft_asset_to_nft, nft_licenses,
                        nft_user_licenses>>
         /\ last' = Call("nft.initialize_nft_contract", TRUE, NoAccount, 0, 0)
    ELSE /\ UNCHANGED nftVars
         /\ last' = Call("nft.initialize_nft_contract", FALSE, NoAccount, 0, 0)

\* the asset id _create_asa returns: the block timestamp
Nft_create_asa == now

Nft_create_asserts(name, description, category, ipfs_hash) ==
    /\ nft_is_initialized
    /\ Len(name) > 0
    /\ Len(description) > 0
    /\ Len(category) > 0
    /\ Len(ipfs_hash) > 0

\* itxn_ok: whether the inner asset-creation transaction is accepted
Nft_create_moderator_nft(caller, name, description, category, ipfs_hash, dao_app_id, itxn_ok) ==
    IF Nft_create_asserts(name, description, category, ipfs_hash) /\ itxn_ok
    THEN LET asset_id == Nft_create_asa
             nft_id == nft_count + 1
             moderator_nft == [asset_id |-> asset_id,
                               name |-> name,
                               description |-> description,
                               category |-> category,
                               creator_dao |-> dao_app_id,
                               creator_address |-> caller,
                               ipfs_hash |-> ipfs_hash,
                               created_at |-> now,
                               is_active |-> TRUE,
                               usage_count |-> 0,
                               revenue_generated |-> 0]
         IN /\ nft_count' = nft_id
            /\ nft_moderator_nfts' = (nft_id :> moderator_nft) @@ nft_moderator_nfts
            /\ nft_asset_to_nft' = (asset_id :> nft_id) @@ nft_asset_to_nft
            /\ UNCHANGED <<nft_is_initialized, nft_license_count,
                           nft_total_revenue, nft_dao_contract,
                           nft_treasury_contract, nft_licenses,
                           nft_user_licenses>>
            /\ last' = Call("nft.create_moderator_nft", TRUE, caller, nft_id, 0)
    ELSE /\ UNCHANGED nftVars
         /\ last' = Call("nft.create_moderator_nft", FALSE, caller, 0, 0)

\* purchase_license without the existing-license assertion
Nft_purchase_asserts_NoExisting(caller, nft_id, payment) ==
    /\ nft_is_initialized
    /\ nft_id \in DOMAIN nft_moderator_nfts
    /\ nft_moderator_nfts[nft_id].is_active
    /\ payment.receiver = AppAddress
    /\ payment.sender = caller
    /\ payment.amount > 0

Nft_purchase_asserts(caller, nft_id, payment) ==
    /\ nft_is_initialized
    /\ nft_id \in DOMAIN nft_moderator_nfts
    /\ nft_moderator_nfts[nft_id].is_active
    /\ payment.receiver = AppAddress
    /\ payment.sender = caller
    /\ payment.amount > 0
    /\ <<caller, nft_id>> \in DOMAIN nft_user_licenses
          => ~nft_licenses[nft_user_licenses[<<caller, nft_id>>]].is_active

\* end_date computed as a duration only, not counted from the current time
Nft_end_date_NoStart(duration_days) ==
    IF duration_days > 0 THEN duration_days * SecondsPerDay ELSE 0

\* end_date of a license bought now: 0 (permanent) or now + days
Nft_end_date(duration_days) ==
    IF duration_days > 0 THEN now + duration_days * SecondsPerDay ELSE 0

Nft_purchase_license(caller, nft_id, license_type, duration_days, usage_limit, payment) ==
    IF Nft_purchase_asserts(caller, nft_id, payment)
    THEN LET license_id == nft_license_count + 1
             license == [nft_id |-> nft_id,
                         licensee |-> caller,
                         license_type |-> license_type,
                         start_date |-> now,
                         end_date |-> Nft_end_date(duration_days),
                         usage_limit |-> usage_limit,
                         usage_count |-> 0,
                         amount_paid |-> payment.amount,
                         is_active |-> TRUE]
         IN /\ nft_license_count' = license_id
            /\ nft_licenses' = (license_id :> license) @@ nft_licenses
            /\ nft_user_licenses' =
                   (<<caller, nft_id>> :> license_id) @@ nft_user_licenses
            /\ nft_total_revenue' = nft_total_revenue + payment.amount
            /\ nft_moderator_nfts' =
                   [nft_moderator_nfts EXCEPT
                       ![nft_id].revenue_generated = @ + payment.amount]
            /\ UNCHANGED <<nft_is_initialized, nft_count, nft_dao_contract,
                           nft_treasury_contract, nft_asset_to_nft>>
            /\ last' = Call("nft.purchase_license", TRUE, caller, nft_id, license_id)
    ELSE /\ UNCHANGED nftVars
         /\ last' = Call("nft.purchase_license", FALSE, caller, nft_id, 0)

\* the validity checks with the usage limit compared one too late
Nft_license_valid_OffByOne(license) ==
    /\ license.is_active
    /\ license.end_date > 0 => now <= license.end_date
    /\ license.usage_limit > 0 => license.usage_count <= license.usage_limit

\* the validity checks of use_moderator on the caller's license
Nft_license_valid(license) ==
    /\ license.is_active
    /\ license.end_date > 0 => now <= license.end_date
    /\ license.usage_limit > 0 => license.usage_count < license.usage_limit

Nft_use_asserts(caller, nft_id) ==
    /\ nft_is_initialized
    /\ nft_id \in DOMAIN nft_moderator_nfts
    /\ nft_moderator_nfts[nft_id].is_active
    /\ <<caller, nft_id>> \in DOMAIN nft_user_licenses
    /\ Nft_license_valid(nft_licenses[nft_user_licenses[<<caller, nft_id>>]])

\* use_moderator that counts the use on the license only
Nft_use_moderator_LicenseOnly(caller, nft_id) ==
    IF Nft_use_asserts(caller, nft_id)
    THEN LET license_id == nft_user_licenses[<<caller, nft_id>>]
         IN /\ nft_licenses' =
                   [nft_licenses EXCEPT ![license_id].usage_count = @ + 1]
            /\ UNCHANGED <<nft_is_initialized, nft_count, nft_license_count,
                           nft_total_revenue, nft_dao_contract,
                           nft_treasury_contract, nft_asset_to_nft,
                           nft_user_licenses, nft_moderator_nfts>>
            /\ last' = Call("nft.use_moderator", TRUE, caller, nft_id, license_id)
    ELSE /\ UNCHANGED nftVars
         /\ last' = Call("nft.use_moderator", FALSE, caller, nft_id, 0)

Nft_use_moderator(caller, nft_id) ==
    IF Nft_use_asserts(caller, nft_id)
    THEN LET license_id == nft_user_licenses[<<caller, nft_id>>]
         IN /\ nft_licenses' =
                   [nft_licenses EXCEPT ![license_id].usage_count = @ + 1]
            /\ nft_moderator_nfts' =
                   [nft_moderator_nfts EXCEPT ![nft_id].usage_count = @ + 1]
            /\ UNCHANGED <<nft_is_initialized, nft_count, nft_license_count,
                           nft_total_revenue, nft_dao_contract,
                           nft_treasury_contract, nft_asset_to_nft,
                           nft_user_licenses>>
            /\ last' = Call("nft.use_moderator", TRUE, caller, nft_id, license_id)
    ELSE /\ UNCHANGED nftVars
         /\ last' = Call("nft.use_moderator", FALSE, caller, nft_id, 0)

\* ---- the calls the environment makes on the NFT contract
NftTimes  == TimesOf(SecondsPerDay, MaxLag)
NftIds    == 1..(MaxNfts + 1)
NftOthers == <<govVars, daoVars, trVars, cdaoVars, mpVars, sdaoVars>>

NftInitialize ==
    \E dao_app_id \in {0, 1}, treasury_app_id \in {0, 3} :
        /\ Nft_initialize_nft_contract(dao_app_id, treasury_app_id)
        /\ UNCHANGED <<now, NftOthers>>

NftCreateModeratorNft ==
    \E caller \in {"alice"}, name \in {"", "m"}, ipfs_hash \in {"", "Qm"},
       itxn_ok \in BOOLEAN :
        /\ nft_count < MaxNfts
        /\ Nft_create_moderator_nft(caller, name, "d", "c", ipfs_hash, 1, itxn_ok)
        /\ UNCHANGED <<now, NftOthers>>

NftPurchaseLicense ==
    \E caller \in Accounts, nft_id \in NftIds, duration_days \in {0, 1},
       usage_limit \in {0, 2}, receiver \in {AppAddress, NoAccount},
       amount \in {0, 5} :
        /\ Nft_purchase_license(caller, nft_id, "subscription", duration_days,
                                usage_limit, Payment(receiver, caller, amount))
        /\ UNCHANGED <<now, NftOthers>>

NftUseModerator ==
    \E caller \in Accounts, nft_id \in NftIds :
        /\ nft_id \in DOMAIN nft_moderator_nfts
              => nft_moderator_nfts[nft_id].usage_count < MaxUses
        /\ Nft_use_moderator(caller, nft_id)
        /\ UNCHANGED <<now, NftOthers>>

NftTick == Tick(NftTimes) /\ UNCHANGED <<NftOthers, nftVars>>

NextNft ==
    \/ NftInitialize
    \/ NftCreateModeratorNft
    \/ NftPurchaseLicense
    \/ NftUseModerator
    \/ NftTick


\* ================================================ CitadelDAO (contract.py)
\* dao_id_bytes = "dao_" ++ itob(counter) and proposal_id_bytes = "prop_" ++
\* itob(counter) have a fixed width, so a box key id ++ sender is the pair
\* <<counter, sender>>; an id string that names no box is a number not in
\* the map's domain.
CdaoInit ==
    /\ cdao_dao_configs = EmptyMap
    /\ cdao_proposals = EmptyMap
    /\ cdao_member_stakes = EmptyMap
    /\ cdao_votes = EmptyMap
    /\ cdao_treasury_balances = EmptyMap
    /\ cdao_dao_counter = 0
    /\ cdao_proposal_counter = 0

\* create_dao_proposal without the activation-threshold assertion
Cdao_create_dao_asserts_NoThreshold(caller, min_members, min_stake, voting_period, activation_threshold, payment_txn) ==
    /\ min_members >= CdaoMinMembers
    /\ min_stake >= CdaoMinStakeFloor
    /\ voting_period >= CdaoMinVotingPeriod
    /\ payment_txn.receiver = AppAddress
    /\ payment_txn.sender = caller
    /\ payment_txn.amount >= min_stake

Cdao_create_dao_asserts(caller, min_members, min_stake, voting_period, activation_threshold, payment_txn) ==
    /\ min_members >= CdaoMinMembers
    /\ min_stake >= CdaoMinStakeFloor
    /\ activation_threshold >= CdaoMinThreshold /\ activation_threshold <= 100
    /\ voting_period >= CdaoMinVotingPeriod
    /\ payment_txn.receiver = AppAddress
    /\ payment_txn.sender = caller
    /\ payment_txn.amount >= min_stake

Cdao_create_dao_proposal(caller, dao_name, description, category, min_members, min_stake, voting_period, activation_threshold, payment_txn) ==
    IF Cdao_create_dao_asserts(caller, min_members, min_stake, voting_period,
                               activation_threshold, payment_txn)
    THEN LET dao_id == cdao_dao_counter + 1
         IN /\ cdao_dao_counter' = dao_id
            /\ cdao_dao_configs' =
                   (dao_id :> [min_members |-> min_members,
                               min_stake |-> min_stake,
                               voting_period |-> voting_period,
                               activation_threshold |-> activation_threshold,
                               creator |-> caller]) @@ cdao_dao_configs
            /\ cdao_member_stakes' =
                   (<<dao_id, caller>> :> payment_txn.amount) @@ cdao_member_stakes
            /\ cdao_treasury_balances' =
                   (dao_id :> payment_txn.amount) @@ cdao_treasury_balances
            /\ UNCHANGED <<cdao_proposals, cdao_votes, cdao_proposal_counter>>
            /\ last' = Call("cdao.create_dao_proposal", TRUE, caller, dao_id,
                            payment_txn.amount)
    ELSE /\ UNCHANGED cdaoVars
         /\ last' = Call("cdao.create_dao_proposal", FALSE, caller, 0,
                         payment_txn.amount)

Cdao_join_asserts(caller, dao_id, payment_txn) ==
    /\ dao_id \in DOMAIN cdao_dao_configs
    /\ payment_txn.receiver = AppAddress
    /\ payment_txn.sender = caller
    /\ payment_txn.amount >= cdao_dao_configs[dao_id].min_stake
    /\ <<dao_id, caller>> \notin DOMAIN cdao_member_stakes

Cdao_join_dao(caller, dao_id, payment_txn) ==
    IF Cdao_join_asserts(caller, dao_id, payment_txn)
    THEN /\ cdao_member_stakes' =
                (<<dao_id, caller>> :> payment_txn.amount) @@ cdao_member_stakes
         /\ cdao_treasury_balances' =
                [cdao_treasury_balances EXCEPT ![dao_id] = @ + payment_txn.amount]
         /\ UNCHANGED <<cdao_dao_configs, cdao_proposals, cdao_votes,
                        cdao_dao_counter, cdao_proposal_counter>>
         /\ last' = Call("cdao.join_dao", TRUE, caller, dao_id, payment_txn.amount)
    ELSE /\ UNCHANGED cdaoVars
         /\ last' = Call("cdao.join_dao", FALSE, caller, dao_id, payment_txn.amount)

Cdao_create_proposal_asserts(caller, dao_id) ==
    /\ dao_id \in DOMAIN cdao_dao_configs
    /\ <<dao_id, caller>> \in DOMAIN cdao_member_stakes

\* required_votes of a new proposal: integer division, rounding down
Cdao_required_votes(dao_config) ==
    (dao_config.min_members * dao_config.activation_threshold) \div 100

Cdao_create_proposal(caller, dao_id, proposal_title, proposal_description, moderator_category) ==
    IF Cdao_create_proposal_asserts(caller, dao_id)
    THEN LET proposal_id == cdao_proposal_counter + 1
             proposal_data ==
                 [dao_id |-> dao_id,
                  title |-> proposal_title,
                  description |-> proposal_description,
                  creator |-> caller,
                  required_votes |-> Cdao_required_votes(cdao_dao_configs[dao_id]),
                  current_votes |-> 0,
                  status |-> "active",
                  created_at |-> now]
         IN /\ cdao_proposal_counter' = proposal_id
            /\ cdao_proposals' = (proposal_id :> proposal_data) @@ cdao_proposals
            /\ UNCHANGED <<cdao_dao_configs, cdao_member_stakes, cdao_votes,
                           cdao_treasury_balances, cdao_dao_counter>>
            /\ last' = Call("cdao.create_proposal", TRUE, caller, proposal_id, 0)
    ELSE /\ UNCHANGED cdaoVars
         /\ last' = Call("cdao.create_proposal", FALSE, caller, 0, 0)

Cdao_vote_asserts(caller, proposal_id) ==
    /\ proposal_id \in DOMAIN cdao_proposals
    /\ cdao_proposals[proposal_id].status = "active"
    /\ <<cdao_proposals[proposal_id].dao_id, caller>> \in DOMAIN cdao_member_stakes
    /\ <<proposal_id, caller>> \notin DOMAIN cdao_votes

\* the proposal after a vote: yes votes are counted, no votes are not
Cdao_count_vote(proposal_data, vote_yes) ==
    IF vote_yes
    THEN LET counted == [proposal_data EXCEPT !.current_votes = @ + 1]
         IN IF counted.current_votes >= counted.required_votes
            THEN [counted EXCEPT !.status = "passed"]
            ELSE counted
    ELSE proposal_data

Cdao_vote_on_proposal(caller, proposal_id, vote_yes) ==
    IF Cdao_vote_asserts(caller, proposal_id)
    THEN /\ cdao_votes' =
                (<<proposal_id, caller>> :> (IF vote_yes THEN 1 ELSE 2)) @@ cdao_votes
         /\ cdao_proposals' =
                [cdao_proposals EXCEPT
                    ![proposal_id] = Cdao_count_vote(@, vote_yes)]
         /\ UNCHANGED <<cdao_dao_configs, cdao_member_stakes,
                        cdao_treasury_balances, cdao_dao_counter,
                        cdao_proposal_counter>>
         /\ last' = Call("cdao.vote_on_proposal", TRUE, caller, proposal_id, 0)
    ELSE /\ UNCHANGED cdaoVars
         /\ last' = Call("cdao.vote_on_proposal", FALSE, caller, proposal_id, 0)

\* execute_proposal without the status-is-passed assertion
Cdao_execute_asserts_NoStatus(caller, proposal_id) ==
    /\ proposal_id \in DOMAIN cdao_proposals
    /\ <<cdao_proposals[proposal_id].dao_id, caller>> \in DOMAIN cdao_member_stakes

Cdao_execute_asserts(caller, proposal_id) ==
    /\ proposal_id \in DOMAIN cdao_proposals
    /\ cdao_proposals[proposal_id].status = "passed"
    /\ <<cdao_proposals[proposal_id].dao_id, caller>> \in DOMAIN cdao_member_stakes

\* itxn_ok: whether the inner asset-creation transaction is accepted
Cdao_execute_proposal(caller, proposal_id, moderator_name, itxn_ok) ==
    IF Cdao_execute_asserts(caller, proposal_id) /\ itxn_ok
    THEN /\ cdao_proposals' =
                [cdao_proposals EXCEPT ![proposal_id].status = "executed"]
         /\ UNCHANGED <<cdao_dao_configs, cdao_member_stakes, cdao_votes,
                        cdao_treasury_balances, cdao_dao_counter,
                        cdao_proposal_counter>>
         /\ last' = Call("cdao.execute_proposal", TRUE, caller, proposal_id, 0)
    ELSE /\ UNCHANGED cdaoVars
         /\ last' = Call("cdao.execute_proposal", FALSE, caller, proposal_id, 0)

Cdao_distribute_asserts(dao_id) ==
    dao_id \in DOMAIN cdao_dao_configs

Cdao_distribute_revenue(dao_id, revenue_amount) ==
    IF Cdao_distribute_asserts(dao_id)
    THEN /\ cdao_treasury_balances' =
                [cdao_treasury_balances EXCEPT ![dao_id] = @ + revenue_amount]
         /\ UNCHANGED <<cdao_dao_configs, cdao_proposals, cdao_member_stakes,
                        cdao_votes, cdao_dao_counter, cdao_proposal_counter>>
         /\ last' = Call("cdao.distribute_revenue", TRUE, NoAccount, dao_id,
                         revenue_amount)
    ELSE /\ UNCHANGED cdaoVars
         /\ last' = Call("cdao.distribute_revenue", FALSE, NoAccount, dao_id,
                         revenue_amount)

\* ---- the calls the environment makes on the multi-DAO contract
CdaoIds         == 1..(MaxDaos + 1)
CdaoProposalIds == 1..(MaxProposals + 1)
CdaoBalanceCap  == MaxStakeUnits * CdaoMinStakeFloor
CdaoOthers      == <<now, govVars, daoVars, trVars, nftVars, mpVars, sdaoVars>>

\* <<min_members, min_stake, voting_period, activation_threshold>>: valid
\* configurations and the ones with a single parameter out of range
CdaoCreateArgs ==
    {<<2, CdaoMinStakeFloor, CdaoMinVotingPeriod, 60>>,
     <<2, CdaoMinStakeFloor, CdaoMinVotingPeriod, 100>>,
     <<1, CdaoMinStakeFloor, CdaoMinVotingPeriod, 60>>,
     <<2, CdaoMinStakeFloor - 1, CdaoMinVotingPeriod, 60>>,
     <<2, CdaoMinStakeFloor, CdaoMinVotingPeriod - 1, 60>>,
     <<2, CdaoMinStakeFloor, CdaoMinVotingPeriod, 50>>,
     <<2, CdaoMinStakeFloor, CdaoMinVotingPeriod, 101>>}

\* a payment to the contract by the caller, or one that is misdirected
CdaoPayments(caller) ==
    {Payment(AppAddress, caller, a) :
        a \in {CdaoMinStakeFloor - 1, CdaoMinStakeFloor,
               CdaoMinStakeFloor + CdaoMinStakeFloor \div 2}}
        \cup {Payment(NoAccount, caller, CdaoMinStakeFloor)}

CdaoCreateDao ==
    \E caller \in Accounts, a \in CdaoCreateArgs :
      \E payment \in CdaoPayments(caller) :
        /\ cdao_dao_counter < MaxDaos
        /\ Cdao_create_dao_proposal(caller, "n", "d", "c", a[1], a[2], a[3],
                                    a[4], payment)
        /\ UNCHANGED CdaoOthers

CdaoJoin ==
    \E caller \in Accounts, dao_id \in CdaoIds :
      \E payment \in CdaoPayments(caller) :
        /\ Cdao_join_dao(caller, dao_id, payment)
        /\ UNCHANGED CdaoOthers

CdaoCreateProposal ==
    \E caller \in Accounts, dao_id \in CdaoIds :
        /\ cdao_proposal_counter < MaxProposals
        /\ Cdao_create_proposal(caller, dao_id, "t", "d", "c")
        /\ UNCHANGED CdaoOthers

CdaoVote ==
    \E caller \in Accounts, proposal_id \in CdaoProposalIds,
       vote_yes \in BOOLEAN :
        /\ Cdao_vote_on_proposal(caller, proposal_id, vote_yes)
        /\ UNCHANGED CdaoOthers

CdaoExecute ==
    \E caller \in Accounts, proposal_id \in CdaoProposalIds,
       itxn_ok \in BOOLEAN :
        /\ Cdao_execute_proposal(caller, proposal_id, "m", itxn_ok)
        /\ UNCHANGED CdaoOthers

CdaoDistributeRevenue ==
    \E dao_id \in CdaoIds, revenue_amount \in {0, CdaoMinStakeFloor} :
        /\ dao_id \in DOMAIN cdao_treasury_balances
              => cdao_treasury_balances[dao_id] + revenue_amount <= CdaoBalanceCap
        /\ Cdao_distribute_revenue(dao_id, revenue_amount)
        /\ UNCHANGED CdaoOthers

NextCdao ==
    \/ CdaoCreateDao
    \/ CdaoJoin
    \/ CdaoCreateProposal
    \/ CdaoVote
    \/ CdaoExecute
    \/ CdaoDistributeRevenue


\* ==================== ModeratorPurchaseContract (moderator_purchase/contract.py)
\* The application exists once create_moderator, its creation call, has run
\* (moderator_exists = 1).  A local value that was never written reads as 0.
\* Every method that touches the caller's LocalState takes local_ok: whether
\* the AVM lets the call use that account's local state (the account has
\* opted in and the values read exist); the call fails when it does not.
MpInit ==
    /\ mp_contract_owner = NoAccount
    /\ mp_moderator_owner = NoAccount
    /\ mp_moderator_creator = NoAccount
    /\ mp_moderator_exists = 0
    /\ mp_hourly_price = 0
    /\ mp_monthly_price = 0
    /\ mp_buyout_price = 0
    /\ mp_total_transactions = 0
    /\ mp_total_revenue = 0
    /\ mp_total_users = 0
    /\ mp_user_access_type = [a \in Members |-> 0]
    /\ mp_access_expiry = [a \in Members |-> 0]
    /\ mp_hours_remaining = [a \in Members |-> 0]
    /\ mp_total_spent = [a \in Members |-> 0]
    /\ mp_owner_by_buyout = FALSE

MpOthers == <<govVars, daoVars, trVars, nftVars, cdaoVars, sdaoVars>>
MpAmounts == {0, MpMicroAlgos, 2 * MpMicroAlgos}

\* what every purchase does after its own part: the 90/10 split of the
\* payment (owner_share goes to the current owner, contract_fee is counted as
\* revenue), the spending of the caller and the statistics
Mp_record_purchase(caller, total_payment) ==
    /\ mp_total_spent' = [mp_total_spent EXCEPT ![caller] = @ + total_payment]
    /\ mp_total_transactions' = mp_total_transactions + 1
    /\ mp_total_revenue' =
           LET owner_share == (total_payment * MpOwnerPercent) \div 100
               contract_fee == total_payment - owner_share
           IN mp_total_revenue + contract_fee
    /\ mp_total_users' =
           IF mp_total_spent[caller] = 0 THEN mp_total_users + 1 ELSE mp_total_users

Mp_create_moderator(caller, creator, hourly_price_algo, monthly_price_algo, buyout_price_algo) ==
    /\ mp_moderator_exists = 0
    /\ mp_contract_owner' = caller
    /\ mp_moderator_creator' = creator
    /\ mp_moderator_owner' = creator
    /\ mp_moderator_exists' = 1
    /\ mp_hourly_price' = hourly_price_algo * MpMicroAlgos
    /\ mp_monthly_price' = monthly_price_algo * MpMicroAlgos
    /\ mp_buyout_price' = buyout_price_algo * MpMicroAlgos
    /\ mp_total_transactions' = 0
    /\ mp_total_revenue' = 0
    /\ mp_total_users' = 0
    /\ UNCHANGED <<mp_user_access_type, mp_access_expiry, mp_hours_remaining,
                   mp_total_spent, mp_owner_by_buyout>>
    /\ last' = Call("mp.create_moderator", TRUE, caller, 0, 0)

Mp_purchase_hourly_access(caller, payment, hours, itxn_ok, local_ok) ==
    IF /\ mp_moderator_exists = 1
       /\ payment.receiver = AppAddress
       /\ payment.amount >= mp_hourly_price * hours
       /\ payment.sender = caller
       /\ itxn_ok
       /\ local_ok
    THEN /\ mp_hours_remaining' = [mp_hours_remaining EXCEPT ![caller] = @ + hours]
         /\ mp_user_access_type' = [mp_user_access_type EXCEPT ![caller] = 1]
         /\ Mp_record_purchase(caller, payment.amount)
         /\ UNCHANGED <<mp_contract_owner, mp_moderator_owner,
                        mp_moderator_creator, mp_moderator_exists,
                        mp_hourly_price, mp_monthly_price, mp_buyout_price,
                        mp_access_expiry, mp_owner_by_buyout>>
         /\ last' = Call("mp.purchase_hourly_access", TRUE, caller, 0, payment.amount)
    ELSE /\ UNCHANGED mpVars
         /\ last' = Call("mp.purchase_hourly_access", FALSE, caller, 0, payment.amount)

Mp_purchase_monthly_license(caller, payment, months, itxn_ok, local_ok) ==
    IF /\ mp_moderator_exists = 1
       /\ payment.receiver = AppAddress
       /\ payment.amount >= mp_monthly_price * months
       /\ payment.sender = caller
       /\ itxn_ok
       /\ local_ok
    THEN LET current_time == now
             additional_time == MpSecondsPerMonth * months
             current_expiry == mp_access_expiry[caller]
         IN /\ mp_access_expiry' =
                   [mp_access_expiry EXCEPT ![caller] =
                       IF current_expiry > current_time
                       THEN current_expiry + additional_time
                       ELSE current_time + additional_time]
            /\ mp_user_access_type' = [mp_user_access_type EXCEPT ![caller] = 2]
            /\ Mp_record_purchase(caller, payment.amount)
            /\ UNCHANGED <<mp_contract_owner, mp_moderator_owner,
                           mp_moderator_creator, mp_moderator_exists,
                           mp_hourly_price, mp_monthly_price, mp_buyout_price,
                           mp_hours_remaining, mp_owner_by_buyout>>
            /\ last' = Call("mp.purchase_monthly_license", TRUE, caller, 0, payment.amount)
    ELSE /\ UNCHANGED mpVars
         /\ last' = Call("mp.purchase_monthly_license", FALSE, caller, 0, payment.amount)

Mp_buyout_moderator(caller, payment, itxn_ok, local_ok) ==
    IF /\ mp_moderator_exists = 1
       /\ mp_moderator_owner # caller
       /\ payment.receiver = AppAddress
       /\ payment.amount >= mp_buyout_price
       /\ payment.sender = caller
       /\ itxn_ok
       /\ local_ok
    THEN /\ mp_moderator_owner' = caller
         /\ mp_owner_by_buyout' = TRUE
         /\ mp_user_access_type' = [mp_user_access_type EXCEPT ![caller] = 3]
         /\ mp_access_expiry' = [mp_access_expiry EXCEPT ![caller] = 0]
         /\ mp_hours_remaining' = [mp_hours_remaining EXCEPT ![caller] = 0]
         /\ Mp_record_purchase(caller, payment.amount)
         /\ UNCHANGED <<mp_contract_owner, mp_moderator_creator,
                        mp_moderator_exists, mp_hourly_price, mp_monthly_price,
                        mp_buyout_price>>
         /\ last' = Call("mp.buyout_moderator", TRUE, caller, 0, payment.amount)
    ELSE /\ UNCHANGED mpVars
         /\ last' = Call("mp.buyout_moderator", FALSE, caller, 0, payment.amount)

Mp_update_pricing(caller, new_hourly_price, new_monthly_price, new_buyout_price) ==
    IF caller = mp_moderator_owner
    THEN /\ mp_hourly_price' = new_hourly_price * MpMicroAlgos
         /\ mp_monthly_price' = new_monthly_price * MpMicroAlgos
         /\ mp_buyout_price' = new_buyout_price * MpMicroAlgos
         /\ UNCHANGED <<mp_contract_owner, mp_moderator_owner,
                        mp_moderator_creator, mp_moderator_exists,
                        mp_total_transactions, mp_total_revenue,
                        mp_total_users, mp_user_access_type, mp_access_expiry,
                        mp_hours_remaining, mp_total_spent, mp_owner_by_buyout>>
         /\ last' = Call("mp.update_pricing", TRUE, caller, 0, 0)
    ELSE /\ UNCHANGED mpVars
         /\ last' = Call("mp.update_pricing", FALSE, caller, 0, 0)

Mp_use_hourly_access(caller, hours_used, local_ok) ==
    IF /\ local_ok
       /\ mp_user_access_type[caller] = 1
       /\ mp_hours_remaining[caller] >= hours_used
    THEN /\ mp_hours_remaining' =
                [mp_hours_remaining EXCEPT ![caller] = @ - hours_used]
         /\ UNCHANGED <<mp_contract_owner, mp_moderator_owner,
                        mp_moderator_creator, mp_moderator_exists,
                        mp_hourly_price, mp_monthly_price, mp_buyout_price,
                        mp_total_transactions, mp_total_revenue,
                        mp_total_users, mp_user_access_type, mp_access_expiry,
                        mp_total_spent, mp_owner_by_buyout>>
         /\ last' = Call("mp.use_hourly_access", TRUE, caller, 0, hours_used)
    ELSE /\ UNCHANGED mpVars
         /\ last' = Call("mp.use_hourly_access", FALSE, caller, 0, hours_used)

\* ---- the calls the environment makes on the purchase contract: the
\* creation call by carol, purchases by alice and bob with payments of 0, 1
\* and 2 ALGO for one hour or month, price updates, uses, and the clock
NextMp ==
    \/ \E caller \in {"carol"}, creator \in {"alice", "carol"} :
          /\ Mp_create_moderator(caller, creator, 1, 1, 1)
          /\ UNCHANGED <<now, MpOthers>>
    \/ \E caller \in Accounts, amount \in MpAmounts, itxn_ok \in BOOLEAN, local_ok \in BOOLEAN :
          /\ mp_moderator_exists = 1
          /\ mp_total_transactions < MaxPurchases
          /\ Mp_purchase_hourly_access(caller, Payment(AppAddress, caller, amount), 1, itxn_ok, local_ok)
          /\ UNCHANGED <<now, MpOthers>>
    \/ \E caller \in Accounts, amount \in MpAmounts, itxn_ok \in BOOLEAN, local_ok \in BOOLEAN :
          /\ mp_moderator_exists = 1
          /\ mp_total_transactions < MaxPurchases
          /\ Mp_purchase_monthly_license(caller, Payment(AppAddress, caller, amount), 1, itxn_ok, local_ok)
          /\ UNCHANGED <<now, MpOthers>>
    \/ \E caller \in Accounts, amount \in MpAmounts, itxn_ok \in BOOLEAN, local_ok \in BOOLEAN :
          /\ mp_moderator_exists = 1
          /\ mp_total_transactions < MaxPurchases
          /\ Mp_buyout_moderator(caller, Payment(AppAddress, caller, amount), itxn_ok, local_ok)
          /\ UNCHANGED <<now, MpOthers>>
    \/ \E caller \in Accounts, new_buyout_price \in {1, 2} :
          /\ mp_moderator_exists = 1
          /\ Mp_update_pricing(caller, 1, 1, new_buyout_price)
          /\ UNCHANGED <<now, MpOthers>>
    \/ \E caller \in Accounts, local_ok \in BOOLEAN :
          /\ mp_moderator_exists = 1
          /\ Mp_use_hourly_access(caller, 1, local_ok)
          /\ UNCHANGED <<now, MpOthers>>
    \/ Tick(TimesOf(MpSecondsPerMonth, MaxLag)) /\ UNCHANGED <<MpOthers, mpVars>>

\* ============================== SimpleCitadelDAO (simple_contract.py)
\* The application exists once create_dao, its creation call, has run
\* (is_initialized = 1).  paid_in and refunded add up, per account, the
\* payments join_dao accepted and the refunds leave_dao sent.
SdaoInit ==
    /\ sdao_dao_name = ""
    /\ sdao_dao_description = ""
    /\ sdao_creator = NoAccount
    /\ sdao_min_stake = 0
    /\ sdao_voting_period = 0
    /\ sdao_quorum_threshold = 0
    /\ sdao_member_count = 0
    /\ sdao_total_stake = 0
    /\ sdao_treasury_balance = 0
    /\ sdao_is_initialized = 0
    /\ sdao_is_active = 0
    /\ sdao_paid_in = [a \in Members |-> 0]
    /\ sdao_refunded = [a \in Members |-> 0]

SdaoOthers == <<now, govVars, daoVars, trVars, nftVars, cdaoVars, mpVars>>
SdaoAmounts == {0, SdaoMinStakeFloor - 1, SdaoMinStakeFloor}

Sdao_create_dao(caller, name, description, min_stake, voting_period, quorum_threshold) ==
    IF /\ min_stake >= SdaoMinStakeFloor
       /\ voting_period >= SdaoMinVotingPeriod
       /\ 1 <= quorum_threshold /\ quorum_threshold <= 100
    THEN /\ sdao_dao_name' = name
         /\ sdao_dao_description' = description
         /\ sdao_creator' = caller
         /\ sdao_min_stake' = min_stake
         /\ sdao_voting_period' = voting_period
         /\ sdao_quorum_threshold' = quorum_threshold
         /\ sdao_member_count' = 0
         /\ sdao_total_stake' = 0
         /\ sdao_treasury_balance' = 0
         /\ sdao_is_initialized' = 1
         /\ sdao_is_active' = 1
         /\ UNCHANGED <<sdao_paid_in, sdao_refunded>>
         /\ last' = Call("sdao.create_dao", TRUE, caller, 0, 0)
    ELSE /\ UNCHANGED sdaoVars
         /\ last' = Call("sdao.create_dao", FALSE, caller, 0, 0)

Sdao_join_dao(caller, payment) ==
    IF /\ sdao_is_initialized = 1
       /\ sdao_is_active = 1
       /\ payment.receiver = AppAddress
       /\ payment.sender = caller
       /\ payment.amount >= sdao_min_stake
    THEN /\ sdao_member_count' = sdao_member_count + 1
         /\ sdao_total_stake' = sdao_total_stake + payment.amount
         /\ sdao_treasury_balance' = sdao_treasury_balance + payment.amount
         /\ sdao_paid_in' = [sdao_paid_in EXCEPT ![caller] = @ + payment.amount]
         /\ UNCHANGED <<sdao_dao_name, sdao_dao_description, sdao_creator,
                        sdao_min_stake, sdao_voting_period,
                        sdao_quorum_threshold, sdao_is_initialized,
                        sdao_is_active, sdao_refunded>>
         /\ last' = Call("sdao.join_dao", TRUE, caller, 0, payment.amount)
    ELSE /\ UNCHANGED sdaoVars
         /\ last' = Call("sdao.join_dao", FALSE, caller, 0, payment.amount)

\* total_stake -= refund_amount is a uint64 subtraction: it fails below 0
Sdao_leave_dao(caller, refund_amount, itxn_ok) ==
    IF /\ sdao_is_initialized = 1
       /\ sdao_member_count > 0
       /\ refund_amount <= sdao_treasury_balance
       /\ itxn_ok
       /\ refund_amount <= sdao_total_stake
    THEN /\ sdao_member_count' = sdao_member_count - 1
         /\ sdao_total_stake' = sdao_total_stake - refund_amount
         /\ sdao_treasury_balance' = sdao_treasury_balance - refund_amount
         /\ sdao_refunded' = [sdao_refunded EXCEPT ![caller] = @ + refund_amount]
         /\ UNCHANGED <<sdao_dao_name, sdao_dao_description, sdao_creator,
                        sdao_min_stake, sdao_voting_period,
                        sdao_quorum_threshold, sdao_is_initialized,
                        sdao_is_active, sdao_paid_in>>
         /\ last' = Call("sdao.leave_dao", TRUE, caller, 0, refund_amount)
    ELSE /\ UNCHANGED sdaoVars
         /\ last' = Call("sdao.leave_dao", FALSE, caller, 0, refund_amount)

\* emergency_pause (is_active := 0) and emergency_unpause (is_active := 1)
Sdao_emergency_set(op, caller, is_active) ==
    IF caller = sdao_creator
    THEN /\ sdao_is_active' = is_active
         /\ UNCHANGED <<sdao_dao_name, sdao_dao_description, sdao_creator,
                        sdao_min_stake, sdao_voting_period,
                        sdao_quorum_threshold, sdao_member_count,
                        sdao_total_stake, sdao_treasury_balance,
                        sdao_is_initialized, sdao_paid_in, sdao_refunded>>
         /\ last' = Call(op, TRUE, caller, 0, 0)
    ELSE /\ UNCHANGED sdaoVars
         /\ last' = Call(op, FALSE, caller, 0, 0)

Sdao_withdraw_treasury(caller, amount, recipient, itxn_ok) ==
    IF /\ caller = sdao_creator
       /\ amount <= sdao_treasury_balance
       /\ itxn_ok
    THEN /\ sdao_treasury_balance' = sdao_treasury_balance - amount
         /\ UNCHANGED <<sdao_dao_name, sdao_dao_description, sdao_creator,
                        sdao_min_stake, sdao_voting_period,
                        sdao_quorum_threshold, sdao_member_count,
                        sdao_total_stake, sdao_is_initialized, sdao_is_active,
                        sdao_paid_in, sdao_refunded>>
         /\ last' = Call("sdao.withdraw_treasury", TRUE, caller, 0, amount)
    ELSE /\ UNCHANGED sdaoVars
         /\ last' = Call("sdao.withdraw_treasury", FALSE, caller, 0, amount)

\* ---- the calls the environment makes on the simple DAO: the creation
\* call by carol, joins and leaves by alice and bob, the emergency switch and
\* withdrawals by anyone
NextSdao ==
    \/ \E caller \in {"carol"}, min_stake \in {SdaoMinStakeFloor - 1, SdaoMinStakeFloor}, quorum_threshold \in {0, 50} :
          /\ sdao_is_initialized = 0
          /\ Sdao_create_dao(caller, "n", "d", min_stake, SdaoMinVotingPeriod, quorum_threshold)
          /\ UNCHANGED SdaoOthers
    \/ \E caller \in Accounts, amount \in SdaoAmounts, receiver \in {AppAddress, NoAccount} :
          /\ sdao_is_initialized = 1
          /\ SumOver(sdao_paid_in, Members) + amount <= MaxJoins * SdaoMinStakeFloor
          /\ Sdao_join_dao(caller, Payment(receiver, caller, amount))
          /\ UNCHANGED SdaoOthers
    \/ \E caller \in Accounts, refund_amount \in SdaoAmounts, itxn_ok \in BOOLEAN :
          /\ sdao_is_initialized = 1
          /\ Sdao_leave_dao(caller, refund_amount, itxn_ok)
          /\ UNCHANGED SdaoOthers
    \/ \E caller \in Members :
          /\ sdao_is_initialized = 1
          /\ Sdao_emergency_set("sdao.emergency_pause", caller, 0)
          /\ UNCHANGED SdaoOthers
    \/ \E caller \in Members :
          /\ sdao_is_initialized = 1
          /\ Sdao_emergency_set("sdao.emergency_unpause", caller, 1)
          /\ UNCHANGED SdaoOthers
    \/ \E caller \in Members, amount \in SdaoAmounts, itxn_ok \in BOOLEAN :
          /\ sdao_is_initialized = 1
          /\ Sdao_withdraw_treasury(caller, amount, "bob", itxn_ok)
          /\ UNCHANGED SdaoOthers


Init ==
    /\ now = 0
    /\ last = Call("init", TRUE, NoAccount, 0, 0)
    /\ GovInit
    /\ DaoInit
    /\ TrInit
    /\ NftInit
    /\ CdaoInit
    /\ MpInit
    /\ SdaoInit

NextGov ==
    \/ GovInitialize
    \/ GovCreateProposal
    \/ GovCastVote
    \/ GovFinalizeProposal
    \/ GovExecuteProposal
    \/ GovTick

SpecGov == Init /\ [][NextGov]_vars
SpecDao == Init /\ [][NextDao]_vars
SpecTr  == Init /\ [][NextTr]_vars
SpecNft == Init /\ [][NextNft]_vars
SpecCdao == Init /\ [][NextCdao]_vars
SpecMp == Init /\ [][NextMp]_vars
SpecSdao == Init /\ [][NextSdao]_vars

\* The governance contract and the multi-DAO contract are separate
\* applications with disjoint state: a behaviour of the two together is a
\* behaviour of each.  SpecGovCdao explores each of them while the other is
\* still as deployed.
GovCall  == CdaoInit /\ NextGov
CdaoCall == GovInit /\ now = 0 /\ NextCdao
NextGovCdao == GovCall \/ CdaoCall
SpecGovCdao == Init /\ [][NextGovCdao]_vars

\* The governance contract next to the DAO contract its dao_contract names:
\* alice founds the DAO with 150000, bob joins with 100000, and alice votes
\* with a weight of 100000.
QuorumFound ==
    /\ Dao_initialize_dao("alice", "n", "d", DaoMinStakeFloor,
                          DaoMinVotingPeriod, 60,
                          Payment(AppAddress, "alice",
                                  DaoMinStakeFloor + DaoMinStakeFloor \div 2))
    /\ UNCHANGED <<now, govVars, trVars, nftVars, cdaoVars, mpVars, sdaoVars>>
QuorumJoin ==
    /\ Dao_join_dao("bob", Payment(AppAddress, "bob", DaoMinStakeFloor))
    /\ UNCHANGED <<now, govVars, trVars, nftVars, cdaoVars, mpVars, sdaoVars>>
QuorumVote == GovCastVoteBy({"alice"}, {DaoMinStakeFloor})
NextQuorum ==
    \/ QuorumFound
    \/ QuorumJoin
    \/ GovInitialize
    \/ GovCreateProposal
    \/ QuorumVote
    \/ GovFinalizeProposal
    \/ GovTick
SpecQuorum == Init /\ [][NextQuorum]_vars

\* The single-DAO contract and the multi-DAO contract are separate
\* applications with disjoint state.  SpecDaoCdao explores each of them
\* while the other is still as deployed.
DaoCall == CdaoInit /\ NextDao
CdaoBesideDao == DaoInit /\ NextCdao
NextDaoCdao == DaoCall \/ CdaoBesideDao
SpecDaoCdao == Init /\ [][NextDaoCdao]_vars

\* DAO creation in the single-DAO contract with quorum thresholds around the
\* bounds the contracts assert, beside the multi-DAO contract.
DaoInitializeQuorums ==
    \E caller \in Accounts, quorum_threshold \in {1, 50, 51, 100} :
        /\ Dao_initialize_dao(caller, "n", "d", DaoMinStakeFloor, DaoMinVotingPeriod, quorum_threshold, Payment(AppAddress, caller, DaoMinStakeFloor))
        /\ UNCHANGED <<now, govVars, trVars, nftVars, cdaoVars, mpVars, sdaoVars>>
NextConfig == (CdaoInit /\ DaoInitializeQuorums) \/ CdaoBesideDao
SpecConfig == Init /\ [][NextConfig]_vars

\* The NFT contract creating one moderator asset more than MaxNfts, with no
\* licences sold: asset creation by itself.
NftCreateAnother ==
    \E caller \in Accounts, name \in {"", "m"}, itxn_ok \in BOOLEAN :
        /\ nft_count < MaxNfts + 1
        /\ Nft_create_moderator_nft(caller, name, "d", "c", "Qm", 1, itxn_ok)
        /\ UNCHANGED <<now, NftOthers>>
NextAsa == NftInitialize \/ NftCreateAnother \/ NftTick
SpecAsa == Init /\ [][NextAsa]_vars

\* The governance contract under a clock that keeps advancing and with
\* finalize_proposal called again and again on every proposal id. The clock of
\* the model ends at the last reading of GovTimes, so proposals are created
\* while their voting_end still lies before that reading.
GovLastTime == MaxEpoch * GovMinVotingPeriod + MaxOffset
GovCreateProposalInTime ==
    /\ now + gov_voting_delay + gov_voting_period < GovLastTime
    /\ GovCreateProposal
GovFinalizeCall(proposal_id) ==
    /\ Gov_finalize_proposal(proposal_id)
    /\ UNCHANGED <<now, daoVars, trVars, nftVars, cdaoVars, mpVars, sdaoVars>>
NextGovLive ==
    \/ GovInitialize
    \/ GovCreateProposalInTime
    \/ GovCastVote
    \/ GovFinalizeProposal
    \/ GovExecuteProposal
    \/ GovTick
SpecGovLive ==
    /\ Init
    /\ [][NextGovLive]_vars
    /\ WF_vars(GovTick)
    /\ \A proposal_id \in 1..MaxProposals :
          WF_vars(GovFinalizeCall(proposal_id) /\ last'.ok)

\* The governance contract from its deployment on, with both outcomes of
\* reading the never-written is_initialized flag.
GovInitializeFresh ==
    \E dao_app_id \in {0, 1}, voting_period \in {GovMinVotingPeriod - 1, GovMinVotingPeriod}, quorum_percentage \in {0, 60, 101}, flag_read_ok \in BOOLEAN :
        /\ Gov_initialize_fresh(dao_app_id, 1, voting_period, 0, quorum_percentage, flag_read_ok)
        /\ UNCHANGED <<now, daoVars, trVars, nftVars, cdaoVars, mpVars, sdaoVars>>
NextGovFresh ==
    \/ GovInitializeFresh
    \/ GovCreateProposal
    \/ GovCastVote
    \/ GovFinalizeProposal
    \/ GovExecuteProposal
    \/ GovTick
SpecGovFresh == Init /\ [][NextGovFresh]_vars

\* ================================================================ claims
DaoActiveMembers == {m \in DOMAIN dao_members : dao_members[m].is_active}
DaoActiveStake ==
    SumOver([m \in DOMAIN dao_members |-> dao_members[m].stake], DaoActiveMembers)

\* C1 (old_contract.py): after any sequence of initialize_dao, join_dao,
\* increase_stake and leave_dao, total_stake equals the sum of the stakes of
\* exactly the members whose is_active flag is true.
C1_StakeConservation ==
    dao_is_initialized => dao_total_stake = DaoActiveStake

\* C2 (treasury.py): total_balance never goes below zero and never exceeds
\* what was paid in; authorize_payment and distribute_revenue with an amount
\* greater than total_balance fail and leave total_balance,
\* total_distributed, payment_count and the payment records unchanged.
C2_BalanceNeverNegative ==
    /\ [](tr_total_balance >= 0 /\ tr_total_balance <= MaxPayments * MaxAmount)
    /\ [][(/\ last'.op \in {"tr.authorize_payment", "tr.distribute_revenue"}
           /\ last'.amt > tr_total_balance)
          => (/\ ~last'.ok
              /\ UNCHANGED <<tr_total_balance, tr_total_distributed,
                             tr_payment_count, tr_payments>>)]_vars

\* an authorize_payment asking for more than a non-empty treasury holds failed
C2_Witness ==
    /\ last.op = "tr.authorize_payment"
    /\ ~last.ok
    /\ tr_total_balance > 0
    /\ last.amt > tr_total_balance
    /\ ~tr_is_paused

\* C3 (governance.py cast_vote, contract.py vote_on_proposal): for every
\* (proposal, voter) pair at most one vote ever succeeds: a vote succeeds
\* only for a pair with no stored record, a stored record never changes or
\* disappears, and an attempt by a voter who already voted on the proposal
\* fails and leaves the proposals and the vote records unchanged.
C3_SingleVote ==
    [][/\ \A k \in DOMAIN gov_votes :
            k \in DOMAIN gov_votes' /\ gov_votes'[k] = gov_votes[k]
       /\ \A k \in DOMAIN cdao_votes :
            k \in DOMAIN cdao_votes' /\ cdao_votes'[k] = cdao_votes[k]
       /\ last'.op = "gov.cast_vote" =>
            IF <<last'.id, last'.caller>> \in DOMAIN gov_votes
            THEN ~last'.ok /\ UNCHANGED <<gov_proposals, gov_votes>>
            ELSE last'.ok =>
                   DOMAIN gov_votes' = DOMAIN gov_votes \cup {<<last'.id, last'.caller>>}
       /\ last'.op = "cdao.vote_on_proposal" =>
            IF <<last'.id, last'.caller>> \in DOMAIN cdao_votes
            THEN ~last'.ok /\ UNCHANGED <<cdao_proposals, cdao_votes>>
            ELSE last'.ok =>
                   DOMAIN cdao_votes' = DOMAIN cdao_votes \cup {<<last'.id, last'.caller>>}
       /\ last'.op \notin {"gov.cast_vote", "cdao.vote_on_proposal"} =>
            UNCHANGED <<gov_votes, cdao_votes>>]_vars

\* a second cast_vote by a voter, inside the voting window of an open
\* proposal, failed
C3_Witness ==
    /\ last.op = "gov.cast_vote"
    /\ ~last.ok
    /\ <<last.id, last.caller>> \in DOMAIN gov_votes
    /\ gov_proposals[last.id].status = "active"
    /\ now >= gov_proposals[last.id].voting_start
    /\ now <= gov_proposals[last.id].voting_end

GovTurnout(proposal) ==
    proposal.votes_for + proposal.votes_against + proposal.votes_abstain

\* C4 (governance.py): finalize_proposal sets a proposal to passed if and
\* only if votes_for > votes_against and the weighted turnout reaches
\* quorum_percentage percent of the DAO's total stake; otherwise to rejected.
C4_QuorumOutcome ==
    [][(last'.op = "gov.finalize_proposal" /\ last'.ok) =>
         LET before == gov_proposals[last'.id]
             after  == gov_proposals'[last'.id]
             quorum == GovTurnout(before) * 100
                          >= gov_quorum_percentage * dao_total_stake
         IN /\ after.status \in {"passed", "rejected"}
            /\ after.status = "passed"
                  <=> (before.votes_for > before.votes_against /\ quorum)]_vars

\* C5 (governance.py): finalize_proposal succeeds only when now > voting_end
\* and the status is pending or active; it then changes nothing but the
\* status, which it sets from the recorded tallies alone; a finalize of a
\* proposal that was finalized before fails and changes nothing.
C5_FinalizeOnce ==
    [][last'.op = "gov.finalize_proposal" =>
         /\ last'.ok =>
              /\ last'.id \in DOMAIN gov_proposals
              /\ now > gov_proposals[last'.id].voting_end
              /\ gov_proposals[last'.id].status \in {"pending", "active"}
              /\ gov_proposals' =
                    [gov_proposals EXCEPT ![last'.id].status =
                        IF gov_proposals[last'.id].votes_for
                              > gov_proposals[last'.id].votes_against
                        THEN "passed" ELSE "rejected"]
              /\ UNCHANGED gov_votes
         /\ (/\ last'.id \in DOMAIN gov_proposals
             /\ gov_proposals[last'.id].status \notin {"pending", "active"})
              => ~last'.ok /\ UNCHANGED govVars]_vars

\* a finalize_proposal on an already finalized proposal failed
C5_Witness ==
    /\ last.op = "gov.finalize_proposal"
    /\ ~last.ok
    /\ last.id \in DOMAIN gov_proposals
    /\ gov_proposals[last.id].status \in {"passed", "rejected"}
    /\ now > gov_proposals[last.id].voting_end

TrShareSum ==
    SumOver([m \in DOMAIN tr_revenue_shares |->
                tr_revenue_shares[m].share_percentage], DOMAIN tr_revenue_shares)

\* the part of `amount` a share of `share_percentage` basis points is owed
TrPart(amount, share_percentage) ==
    (amount * share_percentage) \div MaxSharePercentage

\* C6 (treasury.py): a successful distribute_revenue(amount) credits every
\* RevenueShare record's total_received with floor(amount * share_percentage
\* / 10000) and takes exactly the sum credited out of total_balance, for
\* every share configuration of at most 10000 basis points in total.
C6_DistributionConservation ==
    [][(/\ last'.op = "tr.distribute_revenue"
        /\ last'.ok
        /\ TrShareSum <= MaxSharePercentage) =>
         LET part == [m \in DOMAIN tr_revenue_shares |->
                         TrPart(last'.amt, tr_revenue_shares[m].share_percentage)]
         IN /\ \A m \in DOMAIN tr_revenue_shares :
                  tr_revenue_shares'[m].total_received =
                      tr_revenue_shares[m].total_received + part[m]
            /\ tr_total_balance' =
                  tr_total_balance - SumOver(part, DOMAIN tr_revenue_shares)]_vars

\* the license the caller of the last NFT call holds for the NFT of the call
NftLicenseOf(caller, nft_id) == nft_licenses[nft_user_licenses[<<caller, nft_id>>]]

\* C7 (nft_moderator.py): a license with usage_limit > 0 never has
\* usage_count > usage_limit; a use_moderator succeeds only on a license
\* that is not expired (end_date = 0 or now <= end_date) and not exhausted,
\* and adds one to its usage_count; on an active, unexpired license with
\* uses left it succeeds; with usage_limit = n the call after n uses fails.
C7_LicenseBounds ==
    /\ [](\A l \in DOMAIN nft_licenses :
            nft_licenses[l].usage_limit > 0
               => nft_licenses[l].usage_count <= nft_licenses[l].usage_limit)
    /\ [][(/\ last'.op = "nft.use_moderator"
           /\ <<last'.caller, last'.id>> \in DOMAIN nft_user_licenses) =>
            LET lic == NftLicenseOf(last'.caller, last'.id)
                expired == lic.end_date > 0 /\ now > lic.end_date
                exhausted == lic.usage_limit > 0
                                /\ lic.usage_count >= lic.usage_limit
            IN /\ last'.ok <=> (~expired /\ ~exhausted)
               /\ last'.ok =>
                    nft_licenses' =
                       [nft_licenses EXCEPT
                          ![nft_user_licenses[<<last'.caller, last'.id>>]].usage_count
                              = lic.usage_count + 1]
               /\ ~last'.ok => UNCHANGED nftVars]_vars

\* the use after the n-th one of an unexpired license with usage_limit = n
\* failed
C7_Witness ==
    /\ last.op = "nft.use_moderator"
    /\ ~last.ok
    /\ <<last.caller, last.id>> \in DOMAIN nft_user_licenses
    /\ LET lic == NftLicenseOf(last.caller, last.id)
       IN /\ lic.usage_limit > 0
          /\ lic.usage_count = lic.usage_limit
          /\ lic.end_date > 0
          /\ now <= lic.end_date

GovStatus(p) == gov_proposals[p].status

\* the status changes the claim C8 allows
C8_ClaimedSteps ==
    {<<"pending", "active">>, <<"active", "passed">>, <<"active", "rejected">>,
     <<"passed", "executed">>, <<"pending", "cancelled">>,
     <<"active", "cancelled">>}

\* C8 as stated (governance.py): a proposal's status changes only along
\* pending -> active -> {passed, rejected} -> executed, cancelled only from
\* pending or active; passed and rejected are entered only from active.
C8_Original ==
    [][\A p \in DOMAIN gov_proposals :
          GovStatus(p)' # GovStatus(p)
             => <<GovStatus(p), GovStatus(p)'>> \in C8_ClaimedSteps]_vars

\* C8 as amended (governance.py): a proposal is created pending; its status
\* changes only along pending -> active -> {passed, rejected}, pending ->
\* rejected (finalized with no vote cast), passed -> executed, and to
\* cancelled only from pending or active; pending becomes active exactly on
\* the first successful cast_vote; no status is entered twice.
C8_StatusSteps ==
    [][/\ \A p \in DOMAIN gov_proposals' \ DOMAIN gov_proposals :
            GovStatus(p)' = "pending"
       /\ \A p \in DOMAIN gov_proposals :
            /\ GovStatus(p)' # GovStatus(p)
                 => <<GovStatus(p), GovStatus(p)'>>
                        \in C8_ClaimedSteps \cup {<<"pending", "rejected">>}
            /\ (GovStatus(p) = "pending" /\ GovStatus(p)' = "active")
                 => (last'.op = "gov.cast_vote" /\ last'.ok /\ last'.id = p)
            /\ (/\ GovStatus(p) = "pending"
                /\ last'.op = "gov.cast_vote" /\ last'.ok /\ last'.id = p)
                 => GovStatus(p)' = "active"
       /\ \A p \in DOMAIN gov_proposals' :
            LET voted == \E v \in Accounts : <<p, v>> \in DOMAIN gov_votes'
            IN /\ GovStatus(p)' = "pending" => ~voted
               /\ GovStatus(p)' \in {"active", "passed", "executed"} => voted]_vars

\* a proposal has gone pending -> active -> passed -> executed
C8_Witness ==
    \E p \in DOMAIN gov_proposals :
        /\ GovStatus(p) = "executed"
        /\ \E v \in Accounts : <<p, v>> \in DOMAIN gov_votes

\* C9 (governance.py and contract.py execute_proposal): the call succeeds
\* only on a proposal whose status is passed and changes nothing but that
\* status, to executed; on any other status it fails and changes nothing;
\* executed is entered by a successful execute_proposal only and never left.
C9_ExecuteOnce ==
    [][/\ last'.op = "gov.execute_proposal" =>
            IF last'.id \in DOMAIN gov_proposals /\ GovStatus(last'.id) = "passed"
            THEN last'.ok =>
                   /\ gov_proposals' =
                         [gov_proposals EXCEPT ![last'.id].status = "executed"]
                   /\ UNCHANGED gov_votes
            ELSE ~last'.ok /\ UNCHANGED govVars
       /\ last'.op = "cdao.execute_proposal" =>
            IF /\ last'.id \in DOMAIN cdao_proposals
               /\ cdao_proposals[last'.id].status = "passed"
            THEN last'.ok =>
                   /\ cdao_proposals' =
                         [cdao_proposals EXCEPT ![last'.id].status = "executed"]
                   /\ UNCHANGED <<cdao_votes, cdao_member_stakes,
                                  cdao_treasury_balances>>
            ELSE ~last'.ok /\ UNCHANGED cdaoVars
       /\ \A p \in DOMAIN gov_proposals :
            /\ GovStatus(p) = "executed" => GovStatus(p)' = "executed"
            /\ (GovStatus(p) # "executed" /\ GovStatus(p)' = "executed")
                 => (last'.op = "gov.execute_proposal" /\ last'.ok /\ last'.id = p)
       /\ \A p \in DOMAIN cdao_proposals :
            /\ cdao_proposals[p].status = "executed"
                 => cdao_proposals'[p].status = "executed"
            /\ (/\ cdao_proposals[p].status # "executed"
                /\ cdao_proposals'[p].status = "executed")
                 => (last'.op = "cdao.execute_proposal" /\ last'.ok /\ last'.id = p)]_vars

\* a second execute_proposal on an executed proposal failed
C9_Witness ==
    /\ last.op = "gov.execute_proposal"
    /\ ~last.ok
    /\ last.id \in DOMAIN gov_proposals
    /\ GovStatus(last.id) = "executed"

GovVotesOn(votes, p) == {k \in DOMAIN votes : k[1] = p}

\* C10 (governance.py): cast_vote succeeds only if the proposal exists, its
\* status is pending or active and voting_start <= now <= voting_end; while
\* now is outside that window or the proposal is passed, rejected or
\* executed, no vote on it is recorded and its record does not change.
C10_VotingWindow ==
    [][/\ (last'.op = "gov.cast_vote" /\ last'.ok) =>
            /\ last'.id \in DOMAIN gov_proposals
            /\ GovStatus(last'.id) \in {"pending", "active"}
            /\ gov_proposals[last'.id].voting_start <= now
            /\ now <= gov_proposals[last'.id].voting_end
       /\ \A p \in DOMAIN gov_proposals :
            (\/ now < gov_proposals[p].voting_start
             \/ now > gov_proposals[p].voting_end
             \/ GovStatus(p) \in {"passed", "rejected", "executed"})
              => /\ GovVotesOn(gov_votes', p) = GovVotesOn(gov_votes, p)
                 /\ gov_proposals'[p].votes_for = gov_proposals[p].votes_for
                 /\ gov_proposals'[p].votes_against = gov_proposals[p].votes_against
                 /\ gov_proposals'[p].votes_abstain = gov_proposals[p].votes_abstain
                 /\ last'.op = "gov.cast_vote" /\ last'.id = p => ~last'.ok]_vars

\* a vote was accepted in the last second of the voting window
C10_Witness ==
    /\ last.op = "gov.cast_vote"
    /\ last.ok
    /\ now = gov_proposals[last.id].voting_end

\* C11 (governance.py cast_vote): every recorded vote carries a weight equal
\* to the voter's current stake in the DAO: a successful cast_vote is made by
\* an active member and stores that member's registered stake as the weight.
C11_WeightIsStake ==
    [][(last'.op = "gov.cast_vote" /\ last'.ok) =>
          /\ last'.caller \in DOMAIN dao_members
          /\ dao_members[last'.caller].is_active
          /\ gov_votes'[<<last'.id, last'.caller>>].weight
                = dao_members[last'.caller].stake]_vars

\* C12 (treasury.py authorize_payment): the treasury is debited by
\* authorize_payment only when the caller is its governance authority; the
\* callers here are ordinary accounts, of which only the emergency admin
\* holds an administrative role, so a call by any other account fails and
\* leaves total_balance unchanged.
C12_GovernanceOnly ==
    [][(/\ last'.op = "tr.authorize_payment"
        /\ last'.caller # tr_emergency_admin)
       => (~last'.ok /\ UNCHANGED tr_total_balance)]_vars

\* C13 (treasury.py): while the treasury is paused, receive_funds,
\* authorize_payment, distribute_revenue and set_revenue_share fail and leave
\* all treasury state unchanged.
C13_PauseBlocks ==
    [][(/\ tr_is_paused
        /\ last'.op \in {"tr.receive_funds", "tr.authorize_payment",
                         "tr.distribute_revenue", "tr.set_revenue_share"})
       => (~last'.ok /\ UNCHANGED trVars)]_vars

\* C14 (treasury.py): emergency_pause, emergency_unpause and
\* emergency_withdraw succeed only for the emergency admin, who is fixed by
\* the successful initialize_treasury; a call by any other account fails and
\* changes neither is_paused nor total_balance.
C14_AdminOnly ==
    [][/\ last'.op \in {"tr.emergency_pause", "tr.emergency_unpause",
                        "tr.emergency_withdraw"}
          => IF last'.caller = tr_emergency_admin /\ tr_is_initialized
             THEN TRUE
             ELSE ~last'.ok /\ UNCHANGED <<tr_is_paused, tr_total_balance>>
       /\ tr_emergency_admin' # tr_emergency_admin
          => (/\ last'.op = "tr.initialize_treasury" /\ last'.ok
              /\ ~tr_is_initialized)]_vars

\* an emergency_withdraw by an account other than the admin failed although
\* the initialized treasury held the requested amount
C14_Witness ==
    /\ last.op = "tr.emergency_withdraw"
    /\ ~last.ok
    /\ tr_is_initialized
    /\ last.caller # tr_emergency_admin
    /\ last.amt > 0
    /\ last.amt <= tr_total_balance

\* C15 (treasury.py set_revenue_share): the share_percentage values of all
\* RevenueShare records sum to at most 10000 basis points.
C15_ShareSumBound ==
    TrShareSum <= MaxSharePercentage

\* C16 (contract.py create_proposal): every proposal's required_votes is
\* ceil(min_members * activation_threshold / 100) of its DAO's configuration.
C16_RequiredVotesCeil ==
    \A p \in DOMAIN cdao_proposals :
        LET dao_config == cdao_dao_configs[cdao_proposals[p].dao_id]
        IN cdao_proposals[p].required_votes
              = (dao_config.min_members * dao_config.activation_threshold + 99)
                    \div 100

\* C17 (contract.py create_dao_proposal): a failed call changes no state; a
\* call succeeds only with min_members >= 2, min_stake >= 100000,
\* voting_period >= 86400, activation_threshold in 51..100 and a payment of
\* at least min_stake, and then returns a DAO id not used before, makes the
\* caller a member of that DAO with stake equal to the payment amount and
\* sets that DAO's treasury balance to the payment amount.
C17_CreateDao ==
    [][last'.op = "cdao.create_dao_proposal" =>
         IF last'.ok
         THEN LET dao_id == last'.id
                  dao_config == cdao_dao_configs'[dao_id]
              IN /\ dao_id \notin DOMAIN cdao_dao_configs
                 /\ dao_id > cdao_dao_counter
                 /\ DOMAIN cdao_dao_configs' = DOMAIN cdao_dao_configs \cup {dao_id}
                 /\ dao_config.min_members >= 2
                 /\ dao_config.min_stake >= 100000
                 /\ dao_config.voting_period >= 86400
                 /\ dao_config.activation_threshold \in 51..100
                 /\ last'.amt >= dao_config.min_stake
                 /\ dao_config.creator = last'.caller
                 /\ cdao_member_stakes'[<<dao_id, last'.caller>>] = last'.amt
                 /\ cdao_treasury_balances'[dao_id] = last'.amt
                 /\ \A k \in DOMAIN cdao_dao_configs :
                        cdao_dao_configs'[k] = cdao_dao_configs[k]
         ELSE UNCHANGED cdaoVars]_vars

\* a DAO was created with min_members 2, min_stake 100000, threshold 60 and
\* a payment of 150000: creator stake 150000, treasury 150000
C17_Witness ==
    /\ last.op = "cdao.create_dao_proposal"
    /\ last.ok
    /\ last.amt = 150000
    /\ cdao_dao_configs[last.id].min_members = 2
    /\ cdao_dao_configs[last.id].min_stake = 100000
    /\ cdao_dao_configs[last.id].activation_threshold = 60
    /\ cdao_member_stakes[<<last.id, last.caller>>] = 150000
    /\ cdao_treasury_balances[last.id] = 150000

\* C18 (contract.py and old_contract.py join_dao): join_dao fails without
\* state change if the DAO does not exist, the funds are below the DAO's
\* min_stake, or the caller is already an active member; on success the
\* caller is a member with stake equal to the funds and the DAO's treasury
\* balance has grown by exactly the funds.
C18_JoinDao ==
    [][/\ last'.op = "dao.join_dao" =>
            /\ (\/ ~dao_is_initialized
                \/ last'.amt < dao_info.min_stake
                \/ (/\ last'.caller \in DOMAIN dao_members
                    /\ dao_members[last'.caller].is_active))
                 => ~last'.ok
            /\ ~last'.ok => UNCHANGED daoVars
            /\ last'.ok =>
                 /\ last'.caller \in DOMAIN dao_members'
                 /\ dao_members'[last'.caller].is_active
                 /\ dao_members'[last'.caller].stake = last'.amt
                 /\ dao_treasury_balance' = dao_treasury_balance + last'.amt
       /\ last'.op = "cdao.join_dao" =>
            /\ (\/ last'.id \notin DOMAIN cdao_dao_configs
                \/ last'.amt < cdao_dao_configs[last'.id].min_stake
                \/ <<last'.id, last'.caller>> \in DOMAIN cdao_member_stakes)
                 => ~last'.ok
            /\ ~last'.ok => UNCHANGED cdaoVars
            /\ last'.ok =>
                 /\ <<last'.id, last'.caller>> \in DOMAIN cdao_member_stakes'
                 /\ cdao_member_stakes'[<<last'.id, last'.caller>>] = last'.amt
                 /\ cdao_treasury_balances'[last'.id]
                       = cdao_treasury_balances[last'.id] + last'.amt]_vars

\* a second account joined with 100000 a DAO whose treasury held the
\* creator's 150000: the treasury holds 250000
C18_Witness ==
    /\ last.op = "cdao.join_dao"
    /\ last.ok
    /\ last.amt = 100000
    /\ cdao_member_stakes[<<last.id, last.caller>>] = 100000
    /\ cdao_treasury_balances[last.id] = 250000

C20_CreatorRemains ==
    dao_is_initialized =>
        /\ DaoActiveMembers # {}
        /\ Cardinality(DaoActiveMembers) = 1
              => DaoActiveMembers = {dao_info.creator}

\* C21 (nft_moderator.py purchase_license): purchase_license fails if the
\* NFT is unknown or inactive or the caller already holds an active license
\* for it, and a failed call changes nothing; on success the license id was
\* never issued before, end_date = now + duration_days * 86400 when
\* duration_days > 0 and 0 when duration_days = 0, usage_count = 0, and the
\* NFT's revenue_generated and the contract's total_revenue each grow by
\* exactly the payment amount.
C21_PurchaseLicense ==
    [][last'.op = "nft.purchase_license" =>
        /\ (\/ last'.id \notin DOMAIN nft_moderator_nfts
            \/ ~nft_moderator_nfts[last'.id].is_active
            \/ (/\ <<last'.caller, last'.id>> \in DOMAIN nft_user_licenses
                /\ NftLicenseOf(last'.caller, last'.id).is_active))
             => ~last'.ok
        /\ ~last'.ok => UNCHANGED nftVars
        /\ last'.ok =>
             \A caller \in {last'.caller}, nft_id \in {last'.id}, duration_days \in {0, 1}, usage_limit \in {0, 2}, amount \in {0, 5} :
               Nft_purchase_license(caller, nft_id, "subscription", duration_days, usage_limit, Payment(AppAddress, caller, amount))
               => LET license_id == last'.amt
                  IN /\ license_id \notin DOMAIN nft_licenses
                     /\ license_id > nft_license_count
                     /\ DOMAIN nft_licenses' = DOMAIN nft_licenses \cup {license_id}
                     /\ \A l \in DOMAIN nft_licenses :
                            nft_licenses'[l] = nft_licenses[l]
                     /\ nft_user_licenses'[<<caller, nft_id>>] = license_id
                     /\ nft_licenses'[license_id].licensee = caller
                     /\ nft_licenses'[license_id].nft_id = nft_id
                     /\ nft_licenses'[license_id].end_date
                           = IF duration_days > 0
                             THEN now + duration_days * 86400
                             ELSE 0
                     /\ nft_licenses'[license_id].usage_count = 0
                     /\ nft_licenses'[license_id].is_active
                     /\ nft_total_revenue' = nft_total_revenue + amount
                     /\ nft_moderator_nfts'[nft_id].revenue_generated
                           = nft_moderator_nfts[nft_id].revenue_generated + amount]_vars

\* a one-day license was bought at a time after 0 for a payment of 5
C21_Witness ==
    /\ last.op = "nft.purchase_license"
    /\ last.ok
    /\ now > 0
    /\ nft_licenses[last.amt].start_date = now
    /\ nft_licenses[last.amt].end_date = now + 86400
    /\ nft_licenses[last.amt].amount_paid = 5
    /\ nft_moderator_nfts[last.id].revenue_generated >= 5

\* C22 (nft_moderator.py): every license whose is_active flag is true and
\* whose end_date is nonzero satisfies now <= end_date (a license whose
\* end_date has passed is inactive).
C22_ExpiredInactive ==
    \A l \in DOMAIN nft_licenses :
        (nft_licenses[l].is_active /\ nft_licenses[l].end_date > 0)
           => now <= nft_licenses[l].end_date

\* C23 (contract.py create_dao_proposal, old_contract.py initialize_dao):
\* every stored DAO configuration has a threshold within 51..100 and
\* min_stake > 0.
C23_ConfigBounds ==
    /\ \A d \in DOMAIN cdao_dao_configs :
          /\ cdao_dao_configs[d].activation_threshold \in 51..100
          /\ cdao_dao_configs[d].min_stake > 0
    /\ dao_is_initialized =>
          /\ dao_info.quorum_threshold \in 51..100
          /\ dao_info.min_stake > 0

\* C24 (contract.py distribute_revenue): distribute_revenue fails when the
\* amount exceeds the DAO's treasury balance and never increases a treasury
\* balance; a treasury balance grows only in create_dao_proposal and
\* join_dao, by the verified payment amount.
C24_RevenueNeverCredits ==
    [][/\ (/\ last'.op = "cdao.distribute_revenue"
           /\ last'.id \in DOMAIN cdao_treasury_balances
           /\ last'.amt > cdao_treasury_balances[last'.id])
            => ~last'.ok
       /\ \A d \in DOMAIN cdao_treasury_balances :
            cdao_treasury_balances'[d] > cdao_treasury_balances[d]
               => (/\ last'.op = "cdao.join_dao"
                   /\ last'.ok
                   /\ last'.id = d
                   /\ cdao_treasury_balances'[d]
                         = cdao_treasury_balances[d] + last'.amt)]_vars

\* C25 (nft_moderator.py create_moderator_nft, _create_asa): every moderator
\* NFT record has an asset id distinct from that of every other record, and
\* asset_to_nft maps each stored NFT's asset_id back to that NFT's nft_id.
C25_AssetIdsUnique ==
    /\ \A i, j \in DOMAIN nft_moderator_nfts :
          i # j => nft_moderator_nfts[i].asset_id # nft_moderator_nfts[j].asset_id
    /\ \A i \in DOMAIN nft_moderator_nfts :
          /\ nft_moderator_nfts[i].asset_id \in DOMAIN nft_asset_to_nft
          /\ nft_asset_to_nft[nft_moderator_nfts[i].asset_id] = i

\* the summed weight of the stored votes on proposal p with the given support
GovWeightOf(p, support) ==
    SumOver([k \in DOMAIN gov_votes |-> gov_votes[k].weight],
            {k \in GovVotesOn(gov_votes, p) : gov_votes[k].support = support})

\* C26 (governance.py cast_vote): for every proposal, votes_for,
\* votes_against and votes_abstain equal the summed weights of the stored
\* votes on it with support 1, 0 and 2, and every stored vote is keyed by
\* its own proposal and voter.
C26_TalliesMatchVotes ==
    /\ \A p \in DOMAIN gov_proposals :
          /\ gov_proposals[p].votes_for = GovWeightOf(p, 1)
          /\ gov_proposals[p].votes_against = GovWeightOf(p, 0)
          /\ gov_proposals[p].votes_abstain = GovWeightOf(p, 2)
    /\ \A k \in DOMAIN gov_votes :
          /\ k[1] \in DOMAIN gov_proposals
          /\ gov_votes[k].proposal_id = k[1]
          /\ gov_votes[k].voter = k[2]
          /\ gov_votes[k].support \in 0..2

\* a proposal holds a for-vote of weight 2 and an abstention of weight 1
C26_Witness ==
    \E p \in DOMAIN gov_proposals :
        /\ gov_proposals[p].votes_for = 2
        /\ gov_proposals[p].votes_abstain = 1
        /\ gov_proposals[p].votes_against = 0
        /\ Cardinality(GovVotesOn(gov_votes, p)) = 2

\* C27 (treasury.py): a successful receive_funds with payment amount a
\* raises total_balance by exactly a, returns the new total_balance and
\* leaves total_distributed unchanged; a successful authorize_payment(amount)
\* lowers total_balance by exactly amount and raises total_distributed by
\* exactly amount; each appends exactly one PaymentRecord carrying the amount.
C27_ExactAccounting ==
    [][(last'.op \in {"tr.receive_funds", "tr.authorize_payment"} /\ last'.ok) =>
         LET payment_id == tr_payment_count + 1
         IN /\ last'.op = "tr.receive_funds" =>
                 /\ tr_total_balance' = tr_total_balance + last'.amt
                 /\ Tr_receive_funds_returns = tr_total_balance + last'.amt
                 /\ tr_total_distributed' = tr_total_distributed
            /\ last'.op = "tr.authorize_payment" =>
                 /\ tr_total_balance' = tr_total_balance - last'.amt
                 /\ tr_total_distributed' = tr_total_distributed + last'.amt
                 /\ tr_payments'[payment_id].executed_by = last'.caller
            /\ last'.amt > 0
            /\ payment_id \notin DOMAIN tr_payments
            /\ DOMAIN tr_payments' = DOMAIN tr_payments \cup {payment_id}
            /\ tr_payments'[payment_id].amount = last'.amt
            /\ tr_payment_count' = payment_id]_vars

\* an authorize_payment of 2 followed a receive_funds: two records, the
\* second carrying 2
C27_Witness ==
    /\ last.op = "tr.authorize_payment"
    /\ last.ok
    /\ last.amt = 2
    /\ tr_payment_count = 2
    /\ tr_payments[2].amount = 2
    /\ tr_total_distributed = 2
    /\ tr_total_balance = 0

\* C28 (treasury.py): the payment records are an append-only log: the ids
\* are 1, 2, 3, ... (each record stored under its own id), payment_count is
\* the number of stored records, and a stored record is never modified or
\* deleted.
C28_AppendOnlyLog ==
    /\ [](/\ DOMAIN tr_payments = 1..tr_payment_count
          /\ \A i \in DOMAIN tr_payments : tr_payments[i].id = i)
    /\ [][/\ tr_payment_count' >= tr_payment_count
          /\ \A i \in DOMAIN tr_payments :
                /\ i \in DOMAIN tr_payments'
                /\ tr_payments'[i] = tr_payments[i]]_vars

\* the log holds two records, and the last operation was not a payment
C28_Witness ==
    /\ tr_payment_count = 2
    /\ DOMAIN tr_payments = {1, 2}
    /\ last.op \in {"tr.emergency_withdraw", "tr.distribute_revenue"}
    /\ last.ok

\* C29 (governance.py): every proposal stored by create_proposal has
\* voting_end > voting_start >= created_at, with voting_start = created_at +
\* voting_delay and voting_end = voting_start + voting_period (created_at is
\* the clock at the call), and the three timestamps never change afterwards.
C29_ProposalTimestamps ==
    /\ [](\A p \in DOMAIN gov_proposals :
             /\ gov_proposals[p].voting_end > gov_proposals[p].voting_start
             /\ gov_proposals[p].voting_start >= gov_proposals[p].created_at
             /\ gov_proposals[p].voting_start =
                    gov_proposals[p].created_at + gov_voting_delay
             /\ gov_proposals[p].voting_end =
                    gov_proposals[p].voting_start + gov_voting_period)
    /\ [][/\ (last'.op = "gov.create_proposal" /\ last'.ok) =>
                /\ last'.id \notin DOMAIN gov_proposals
                /\ last'.id \in DOMAIN gov_proposals'
                /\ gov_proposals'[last'.id].created_at = now
          /\ \A p \in DOMAIN gov_proposals :
                /\ p \in DOMAIN gov_proposals'
                /\ gov_proposals'[p].created_at = gov_proposals[p].created_at
                /\ gov_proposals'[p].voting_start = gov_proposals[p].voting_start
                /\ gov_proposals'[p].voting_end = gov_proposals[p].voting_end
          /\ gov_is_initialized =>
                /\ gov_voting_delay' = gov_voting_delay
                /\ gov_voting_period' = gov_voting_period]_vars

\* a proposal has been voted on and finalized after its voting_end, and
\* still carries the timestamps it was created with
C29_Witness ==
    /\ last.op = "gov.finalize_proposal"
    /\ last.ok
    /\ last.id \in DOMAIN gov_proposals
    /\ now > gov_proposals[last.id].created_at + gov_voting_delay + gov_voting_period
    /\ gov_proposals[last.id].voting_start = gov_proposals[last.id].created_at + 1
    /\ gov_proposals[last.id].voting_end =
           gov_proposals[last.id].created_at + 1 + GovMinVotingPeriod
    /\ now > gov_proposals[last.id].voting_end
    /\ gov_proposals[last.id].votes_for > 0

\* C30 (old_contract.py): after initialize_dao the DAO's name, description,
\* creator, min_stake, voting_period, quorum_threshold and created_at never
\* change; the only operations that modify the DAO configuration are
\* emergency_pause and emergency_unpause, which change only is_active (to
\* false and to true) and succeed only when called by the creator.
C30_ConfigFrame ==
    [][/\ dao_is_initialized =>
            /\ dao_is_initialized'
            /\ dao_info'.name = dao_info.name
            /\ dao_info'.description = dao_info.description
            /\ dao_info'.creator = dao_info.creator
            /\ dao_info'.min_stake = dao_info.min_stake
            /\ dao_info'.voting_period = dao_info.voting_period
            /\ dao_info'.quorum_threshold = dao_info.quorum_threshold
            /\ dao_info'.created_at = dao_info.created_at
            /\ dao_info' # dao_info =>
                  /\ last'.op \in {"dao.emergency_pause", "dao.emergency_unpause"}
                  /\ last'.ok
       /\ (last'.op \in {"dao.emergency_pause", "dao.emergency_unpause"} /\ last'.ok) =>
            /\ dao_is_initialized
            /\ last'.caller = dao_info.creator
            /\ dao_info' = [dao_info EXCEPT
                              !.is_active = (last'.op = "dao.emergency_unpause")]
            /\ UNCHANGED <<dao_is_initialized, dao_treasury_balance,
                           dao_member_count, dao_total_stake, dao_members>>
       /\ (last'.op \in {"dao.emergency_pause", "dao.emergency_unpause"} /\ ~last'.ok) =>
            /\ ~dao_is_initialized \/ last'.caller # dao_info.creator
            /\ UNCHANGED daoVars]_vars

\* the creator has paused a DAO that has a second active member, and the
\* configuration written by initialize_dao is otherwise as it was
C30_Witness ==
    /\ last.op = "dao.emergency_pause"
    /\ last.ok
    /\ last.caller = dao_info.creator
    /\ dao_info.is_active = FALSE
    /\ dao_info.name # ""
    /\ dao_info.min_stake >= DaoMinStakeFloor
    /\ \E m \in DOMAIN dao_members :
          m # dao_info.creator /\ dao_members[m].is_active

\* the licenses issued for an NFT
NftLicensesFor(nft_id) == {l \in DOMAIN nft_licenses : nft_licenses[l].nft_id = nft_id}

\* C31 (nft_moderator.py): every successful use_moderator adds exactly one
\* to the caller's license usage_count and to the NFT's usage_count, so each
\* NFT's usage_count equals the sum of usage_count over the licenses issued
\* for it; a failed use_moderator changes neither counter.
C31_UsageCounts ==
    /\ [](\A n \in DOMAIN nft_moderator_nfts :
             nft_moderator_nfts[n].usage_count =
                SumOver([l \in DOMAIN nft_licenses |-> nft_licenses[l].usage_count],
                        NftLicensesFor(n)))
    /\ [][last'.op = "nft.use_moderator" =>
            IF last'.ok
            THEN /\ last'.id \in DOMAIN nft_moderator_nfts
                 /\ <<last'.caller, last'.id>> \in DOMAIN nft_user_licenses
                 /\ last'.amt = nft_user_licenses[<<last'.caller, last'.id>>]
                 /\ nft_licenses[last'.amt].nft_id = last'.id
                 /\ nft_licenses[last'.amt].licensee = last'.caller
                 /\ nft_licenses' =
                       [nft_licenses EXCEPT
                          ![last'.amt].usage_count = nft_licenses[last'.amt].usage_count + 1]
                 /\ nft_moderator_nfts' =
                       [nft_moderator_nfts EXCEPT
                          ![last'.id].usage_count =
                              nft_moderator_nfts[last'.id].usage_count + 1]
            ELSE /\ nft_licenses' = nft_licenses
                 /\ nft_moderator_nfts' = nft_moderator_nfts]_vars

\* an NFT used three times under the licenses of two accounts: two uses on
\* one license and one on the other
C31_Witness ==
    /\ last.op = "nft.use_moderator"
    /\ last.ok
    /\ nft_moderator_nfts[last.id].usage_count = 3
    /\ Cardinality(NftLicensesFor(last.id)) = 2
    /\ \E l \in NftLicensesFor(last.id) : nft_licenses[l].usage_count = 2
    /\ \E l \in NftLicensesFor(last.id) : nft_licenses[l].usage_count = 1

\* C32 (treasury.py): total_balance + total_distributed equals the sum of
\* the amounts accepted by receive_funds: the sum starts at 0, a successful
\* receive_funds adds its payment amount to it, and no other operation
\* changes it (what leaves total_balance through authorize_payment,
\* distribute_revenue or emergency_withdraw is added to total_distributed).
C32_OutflowsAccounted ==
    [][(tr_total_balance' + tr_total_distributed') =
          (tr_total_balance + tr_total_distributed) +
             (IF last'.op = "tr.receive_funds" /\ last'.ok THEN last'.amt ELSE 0)]_vars

\* C33 (governance.py): once a proposal's status is passed, rejected or
\* executed, no later operation changes its votes_for, votes_against or
\* votes_abstain, and no further Vote record for it is created (the clock
\* never decreases).
C33_ClosedTallies ==
    [][/\ now' >= now
       /\ \A p \in DOMAIN gov_proposals :
             gov_proposals[p].status \in {"passed", "rejected", "executed"} =>
                /\ p \in DOMAIN gov_proposals'
                /\ gov_proposals'[p].status \in {"passed", "rejected", "executed"}
                /\ gov_proposals'[p].votes_for = gov_proposals[p].votes_for
                /\ gov_proposals'[p].votes_against = gov_proposals[p].votes_against
                /\ gov_proposals'[p].votes_abstain = gov_proposals[p].votes_abstain
                /\ GovVotesOn(gov_votes', p) = GovVotesOn(gov_votes, p)
                /\ \A k \in GovVotesOn(gov_votes, p) : gov_votes'[k] = gov_votes[k]]_vars

\* a cast_vote by an account that has not voted failed on a finalized
\* proposal that holds one vote
C33_Witness ==
    /\ last.op = "gov.cast_vote"
    /\ ~last.ok
    /\ last.id \in DOMAIN gov_proposals
    /\ gov_proposals[last.id].status \in {"passed", "rejected", "executed"}
    /\ <<last.id, last.caller>> \notin DOMAIN gov_votes
    /\ Cardinality(GovVotesOn(gov_votes, last.id)) = 1
    /\ gov_proposals[last.id].votes_for > 0

\* C34 (governance.py): with a clock that keeps advancing and
\* finalize_proposal called fairly, every proposal that is pending or active
\* eventually becomes passed or rejected, whatever votes were or were not
\* cast on it.
C34_EventuallyFinalized ==
    \A p \in 1..MaxProposals :
        (p \in DOMAIN gov_proposals /\ gov_proposals[p].status \in {"pending", "active"})
            ~> (p \in DOMAIN gov_proposals /\ gov_proposals[p].status \in {"passed", "rejected"})

\* a proposal nobody voted on has been finalized from pending
C34_Witness ==
    /\ last.op = "gov.finalize_proposal"
    /\ last.ok
    /\ gov_proposals[last.id].status = "rejected"
    /\ GovVotesOn(gov_votes, last.id) = {}
    /\ GovTurnout(gov_proposals[last.id]) = 0

\* C35 (old_contract.py): after initialize_dao, member_count equals the
\* number of member records whose is_active flag is true, for any sequence
\* of join_dao, increase_stake and leave_dao.
C35_MemberCount ==
    dao_is_initialized => dao_member_count = Cardinality(DaoActiveMembers)

\* three accounts have a member record and two of them have left
C35_Witness ==
    /\ last.op = "dao.leave_dao"
    /\ last.ok
    /\ Cardinality(DOMAIN dao_members) = 3
    /\ dao_member_count = 1
    /\ Cardinality(DaoActiveMembers) = 1

\* C36 (old_contract.py): leaving is permanent: for an account whose
\* leave_dao has succeeded (its member record is inactive), every later
\* join_dao, increase_stake and leave_dao fails and changes nothing, and an
\* inactive member record never becomes active again.
C36_LeavingIsPermanent ==
    [][/\ \A m \in DOMAIN dao_members :
             ~dao_members[m].is_active =>
                /\ m \in DOMAIN dao_members'
                /\ ~dao_members'[m].is_active
       /\ (/\ last'.op \in {"dao.join_dao", "dao.increase_stake", "dao.leave_dao"}
           /\ last'.caller \in DOMAIN dao_members
           /\ ~dao_members[last'.caller].is_active)
            => ~last'.ok /\ UNCHANGED daoVars]_vars

\* an account that left tried to join again with a payment of at least
\* min_stake while the DAO was active, and was refused
C36_Witness ==
    /\ last.op = "dao.join_dao"
    /\ ~last.ok
    /\ last.caller \in DOMAIN dao_members
    /\ ~dao_members[last.caller].is_active
    /\ dao_info.is_active
    /\ last.amt >= dao_info.min_stake

\* the licenses issued to a licensee for an NFT
NftLicensesOfPair(licensee, nft_id) ==
    {l \in NftLicensesFor(nft_id) : nft_licenses[l].licensee = licensee}

\* C37 (nft_moderator.py): at most one license is ever issued per
\* (licensee, NFT) pair: after a licensee's first successful purchase_license
\* for an NFT, every later purchase_license by the same licensee for the
\* same NFT fails and changes nothing, also when that license has expired
\* or has used up its usage limit.
C37_OneLicensePerPair ==
    /\ [](\A a \in Accounts, n \in DOMAIN nft_moderator_nfts :
             /\ Cardinality(NftLicensesOfPair(a, n)) <= 1
             /\ NftLicensesOfPair(a, n) =
                   IF <<a, n>> \in DOMAIN nft_user_licenses
                   THEN {nft_user_licenses[<<a, n>>]}
                   ELSE {})
    /\ [][/\ DOMAIN nft_user_licenses \subseteq DOMAIN nft_user_licenses'
          /\ (/\ last'.op = "nft.purchase_license"
              /\ <<last'.caller, last'.id>> \in DOMAIN nft_user_licenses)
               => ~last'.ok /\ UNCHANGED nftVars]_vars

\* a purchase_license on an active NFT was refused to the holder of a
\* license that has expired or is used up
C37_Witness ==
    /\ last.op = "nft.purchase_license"
    /\ ~last.ok
    /\ <<last.caller, last.id>> \in DOMAIN nft_user_licenses
    /\ nft_moderator_nfts[last.id].is_active
    /\ LET lic == NftLicenseOf(last.caller, last.id)
       IN \/ lic.end_date > 0 /\ now > lic.end_date
          \/ lic.usage_limit > 0 /\ lic.usage_count = lic.usage_limit

\* C38 (moderator_purchase/contract.py): permanent access follows
\* ownership: in every reachable state an account has user_access_type = 3
\* if and only if it is the current moderator_owner and became the owner
\* through buyout_moderator, for any sequence of buyout_moderator,
\* purchase_hourly_access and purchase_monthly_license calls.
C38_BuyoutFollowsOwnership ==
    \A a \in Members :
        mp_user_access_type[a] = 3
            <=> (a = mp_moderator_owner /\ mp_owner_by_buyout)

\* C39 (simple_contract.py): for every account, after any sequence of
\* join_dao, leave_dao and withdraw_treasury calls, the sum refunded to the
\* account by leave_dao does not exceed the sum the account paid in through
\* join_dao.
C39_RefundWithinPaidIn ==
    \A a \in Members : sdao_refunded[a] <= sdao_paid_in[a]

====
